---- MODULE Spec2Model ----
(***************************************************************************)
(* Verification model of the auditor trust pipeline of simple-legal-doc:   *)
(* the AuditorCoordinator (run_audit), the Artifact Integrity Audit, the   *)
(* Seal Trust Verification and the semantic audit pipeline, at the level   *)
(* of the structural signals the coordinator consumes.                     *)
(*                                                                         *)
(* Python None is modelled by the string "none" for Optional[bool] values  *)
(* ("true" / "false" / "none"), lists by sequences, frozen pydantic models *)
(* by records.                                                             *)
(***************************************************************************)
EXTENDS Integers, Sequences, FiniteSets, TLC

\* Largest number of semantic passes of one pipeline run that return a finding.
MaxFindingPasses == 2

VARIABLES
    stv_configured,     \* coordinator._seal_trust_verifier is not None
    protocol,           \* which semantic pipeline is injected ("none" = None)
    pc,                 \* position of run_audit / of the caller
    calls,              \* collaborators run_audit has invoked so far
    artifact_integrity, \* ArtifactIntegrityResult returned by AIA
    semantic_audit,     \* SemanticAuditResult
    seal_trust,         \* SealTrustResult
    stv_env,            \* what the validation engine reported to STV
    all_findings,       \* run_audit's local all_findings
    pass_idx,           \* pipeline loop: index of the next pass
    pass_results,       \* pipeline loop: pass_results so far
    stop_requested,     \* pipeline loop: stop_requested
    ctx_all_findings,   \* context._all_findings
    report,             \* the VerificationReport returned (or constructed)
    constructed,        \* a schema object a caller constructed directly
    pass_run,           \* one LDVP pass: its LLM calls and its result
    adapted,            \* findings adapted by LDVPFindingAdapter.adapt
    emit_run,           \* run_audit seen through its event emissions
    sse,                \* one streamed audit: task, emitter queue, consumer
    signing,            \* one use of the signer: a request or an operation
    codec,              \* one Document Content: generated, audited, compared
    hsm,                \* one sign_digest call of the Azure signing client
    llm,                \* one pipeline run seen from the LLM executor
    container,          \* one artifact given to the container check and AIA
    shared,             \* concurrent audits on one ArtifactIntegrityAudit
    extraction,         \* one artifact given to content extraction
    coverage            \* one artifact given to the signature coverage helper

vars == <<stv_configured, protocol, pc, calls, artifact_integrity,
          semantic_audit, seal_trust, stv_env, all_findings, pass_idx,
          pass_results, stop_requested, ctx_all_findings, report,
          constructed, pass_run, adapted, emit_run, sse, signing, codec,
          hsm, llm, container, shared, extraction,
      coverage>>

\* The state of the components modelled apart from run_audit.
other_vars ==
    <<pass_run, adapted, emit_run, sse, signing, codec, hsm, llm, container,
      shared, extraction,
      coverage>>

\* The state of run_audit and of the schema constructions.
audit_vars == <<stv_configured, protocol, pc, calls, artifact_integrity,
                semantic_audit, seal_trust, stv_env, all_findings, pass_idx,
                pass_results, stop_requested, ctx_all_findings, report,
                constructed>>

(***************************************************************************)
(* Findings (schemas/findings.py)                                          *)
(***************************************************************************)

\* FindingObject: the fields the pipeline reads or rewrites. metadata keeps
\* only the keys any code inspects: "stop_condition" (pipeline.py) or none.
Finding(id, src, sev, st, rstv, meta) ==
    [finding_id |-> id, source |-> src, severity |-> sev, status |-> st,
     requires_stv |-> rstv, metadata |-> meta]

\* Findings emitted by the deterministic AIA checks.
AiaFinding(id, sev) == Finding(id, "artifact_integrity", sev, "open", FALSE, "none")

\* container_archival.py: AIA-MAJ-008 is flagged for review and requires STV.
AIA_MAJ_008 ==
    Finding("AIA-MAJ-008", "artifact_integrity", "major",
            "flagged_for_human_review", TRUE, "none")

\* coordinator.py: the synthesized gate finding.
StvGateFinding ==
    Finding("AIA-CRIT-STV-REQUIRED", "artifact_integrity", "critical",
            "open", FALSE, "none")

\* seal_trust_verification.py: every STV finding is critical and open.
StvFinding(id) == Finding(id, "seal_trust", "critical", "open", FALSE, "none")

RECURSIVE SeqToSet(_)
SeqToSet(s) == IF s = <<>> THEN {} ELSE {Head(s)} \cup SeqToSet(Tail(s))

FindingIds(fs) == {f.finding_id : f \in SeqToSet(fs)}

(***************************************************************************)
(* Artifact Integrity Audit                                                *)
(***************************************************************************)

\* The facts about pdf_bytes that the AIA checks branch on.
Pdfs ==
    [header   : {"ok", "bad", "concat"},
     eof_multi: BOOLEAN,
     parse_ok : BOOLEAN,
     sig      : {"none", "unsigned", "covers", "uncovered"},
     xref     : {"unavailable", "single", "multi"},
     xmp      : {"ok", "missing", "incomplete", "mismatch"},
     content  : {"ok", "missing", "empty", "invalid_json", "not_object"},
     bindings : {"ok", "missing", "no_hash", "bad_format", "uncanonical",
                 "mismatch"},
     text     : {"ok", "failed"}]

_has_signature_fields(pdf) == pdf.parse_ok /\ pdf.sig # "none"

_last_signature_covers_full_document(pdf) ==
    IF ~pdf.parse_ok THEN TRUE
    ELSE pdf.sig # "uncovered"

\* The PDF/A identification findings of the structural-parsing block.
XmpFindings(pdf) ==
    CASE pdf.xmp = "missing"    -> <<AiaFinding("AIA-MAJ-004", "major")>>
      [] pdf.xmp = "incomplete" -> <<AiaFinding("AIA-MAJ-005", "major")>>
      [] pdf.xmp = "mismatch"   -> <<AiaFinding("AIA-MAJ-006", "major")>>
      [] OTHER                  -> <<>>

\* The structural-parsing block (xref check, XMP, AIA-CRIT-007).
StructuralParsing(pdf) ==
    IF ~pdf.parse_ok THEN <<AiaFinding("AIA-CRIT-007", "critical")>>
    ELSE IF /\ pdf.xref = "multi"
            /\ (~_has_signature_fields(pdf)
                \/ ~_last_signature_covers_full_document(pdf))
         THEN <<AiaFinding("AIA-CRIT-003", "critical")>>
         ELSE XmpFindings(pdf)

run_container_archival_checks(pdf) ==
    IF pdf.header = "bad" THEN <<AiaFinding("AIA-CRIT-001", "critical")>>
    ELSE IF pdf.header = "concat" THEN <<AiaFinding("AIA-CRIT-002", "critical")>>
    ELSE IF pdf.eof_multi /\ ~_has_signature_fields(pdf)
         THEN <<AiaFinding("AIA-CRIT-002", "critical")>>
    ELSE (IF pdf.eof_multi /\ ~_last_signature_covers_full_document(pdf)
          THEN <<AIA_MAJ_008>> ELSE <<>>)
         \o StructuralParsing(pdf)

\* ContentExtractionResult: findings plus whether document_content,
\* content_derived_text and bindings are present.
run_content_extraction_checks(pdf) ==
    CASE pdf.content = "missing" ->
            [findings |-> <<AiaFinding("AIA-CRIT-020", "critical")>>,
             document_content |-> FALSE, bindings |-> FALSE]
      [] pdf.content = "empty" ->
            [findings |-> <<AiaFinding("AIA-CRIT-021", "critical")>>,
             document_content |-> FALSE, bindings |-> FALSE]
      [] pdf.content = "invalid_json" ->
            [findings |-> <<AiaFinding("AIA-CRIT-022", "critical")>>,
             document_content |-> FALSE, bindings |-> FALSE]
      [] pdf.content = "not_object" ->
            [findings |-> <<AiaFinding("AIA-CRIT-023", "critical")>>,
             document_content |-> FALSE, bindings |-> FALSE]
      [] OTHER ->
            [findings |-> <<>>, document_content |-> TRUE,
             bindings |-> pdf.bindings # "missing"]

run_cryptographic_binding_checks(document_content, bindings, pdf) ==
    IF ~document_content THEN <<AiaFinding("AIA-CRIT-030", "critical")>>
    ELSE IF ~bindings THEN <<AiaFinding("AIA-CRIT-031", "critical")>>
    ELSE CASE pdf.bindings = "no_hash"     -> <<AiaFinding("AIA-CRIT-032", "critical")>>
           [] pdf.bindings = "bad_format"  -> <<AiaFinding("AIA-CRIT-035", "critical")>>
           [] pdf.bindings = "uncanonical" -> <<AiaFinding("AIA-CRIT-033", "critical")>>
           [] pdf.bindings = "mismatch"    -> <<AiaFinding("AIA-CRIT-034", "critical")>>
           [] OTHER                        -> <<>>

\* Fault model: no severity is fatal.
_has_fatal_findings_never(findings) == FALSE

_has_fatal_findings(findings) ==
    \E f \in SeqToSet(findings) : f.severity = "critical"

\* The three extracted signals of an ArtifactIntegrityResult; "none" is
\* Python None, "" the empty string.
Signals(document_content, content_derived_text, visible_text) ==
    [document_content |-> document_content,
     content_derived_text |-> content_derived_text,
     visible_text |-> visible_text]

NoSignals == Signals("none", "none", "none")

ArtifactIntegrityResult(passed, checks, findings, signals) ==
    [passed |-> passed, checks_executed |-> checks, findings |-> findings,
     document_content |-> signals.document_content,
     content_derived_text |-> signals.content_derived_text,
     visible_text |-> signals.visible_text]

\* ArtifactIntegrityResult.enforce_aia_invariants: TRUE when construction
\* succeeds.
enforce_aia_invariants(r) ==
    IF r.passed
    THEN ~(\/ r.document_content = "none"
           \/ r.content_derived_text = "none"
           \/ r.visible_text = "none")
    ELSE ~(\E v \in {r.document_content, r.content_derived_text,
                     r.visible_text} : v # "none")

\* Fault model: a failed extraction reported as None.
extract_visible_text_none(pdf) == IF pdf.text = "ok" THEN "text" ELSE "none"

\* extract_visible_text: the page text, or "" when extraction fails; it
\* never raises.
extract_visible_text(pdf) == IF pdf.text = "ok" THEN "text" ELSE ""

\* ArtifactIntegrityAudit.run: the three checks in order, hard stop after the
\* first check with a critical finding.
ArtifactIntegrityAuditRun(pdf) ==
    LET c1 == run_container_archival_checks(pdf)
        ex == run_content_extraction_checks(pdf)
        c3 == run_cryptographic_binding_checks(ex.document_content, ex.bindings, pdf)
        n1 == <<"_container_and_archival_compliance">>
        n2 == n1 \o <<"_document_content_extraction">>
        n3 == n2 \o <<"_cryptographic_binding_verification">>
    IN  IF _has_fatal_findings(c1)
        THEN ArtifactIntegrityResult(FALSE, n1, c1, NoSignals)
        ELSE IF _has_fatal_findings(ex.findings)
        THEN ArtifactIntegrityResult(FALSE, n2, c1 \o ex.findings, NoSignals)
        ELSE IF _has_fatal_findings(c3)
        THEN ArtifactIntegrityResult(FALSE, n3, c1 \o ex.findings \o c3, NoSignals)
        ELSE ArtifactIntegrityResult(TRUE, n3, c1 \o ex.findings \o c3,
                                     Signals("content", "text",
                                             extract_visible_text(pdf)))

(***************************************************************************)
(* Seal Trust Verification                                                 *)
(***************************************************************************)

SealTrustResult(executed, trusted, findings, resolved) ==
    [executed |-> executed, trusted |-> trusted, findings |-> findings,
     resolved_aia_finding_ids |-> resolved]

\* Fault model: the validator without the rule on a failed STV.
enforce_stv_invariants_lax(r) ==
    IF ~r.executed
    THEN r.trusted = "none" /\ r.resolved_aia_finding_ids = <<>>
    ELSE r.trusted # "none"

\* SealTrustResult.enforce_stv_invariants: TRUE when construction succeeds.
enforce_stv_invariants(r) ==
    IF ~r.executed
    THEN r.trusted = "none" /\ r.resolved_aia_finding_ids = <<>>
    ELSE /\ r.trusted # "none"
         /\ ~(r.trusted = "false" /\ r.resolved_aia_finding_ids # <<>>)

\* What pyHanko reports for pdf_bytes during one STV run: an exception raised
\* inside the try block, no embedded signature, no api_status, or an
\* api_status with its valid / trusted / docmdp_ok attributes.
StvEnv(exc, sigs, api, valid, trusted, docmdp) ==
    [exc |-> exc, signatures |-> sigs, api_status |-> api, valid |-> valid,
     trusted |-> trusted, docmdp_ok |-> docmdp]

StvEnvs ==
    {StvEnv(e, FALSE, FALSE, FALSE, FALSE, "none") :
        e \in {"PdfError", "SignatureValidationError", "other"}}
    \cup {StvEnv("none", FALSE, FALSE, FALSE, FALSE, "none")}
    \cup {StvEnv("none", TRUE, FALSE, FALSE, FALSE, "none")}
    \cup {StvEnv("none", TRUE, TRUE, v, t, d) :
            v \in BOOLEAN, t \in BOOLEAN, d \in {"true", "false", "none"}}

\* Placeholder before STV has been asked anything.
NoStvEnv == StvEnv("unset", FALSE, FALSE, FALSE, FALSE, "none")

_fail_result(findings) == SealTrustResult(TRUE, "false", findings, <<>>)

\* Fault model: DocMDP resolution attempted whatever the input findings.
needs_docmdp_resolution_always(aia_findings) == TRUE

\* Fault model: the AIA findings are not looked at.
needs_docmdp_resolution_never(aia_findings) == FALSE

needs_docmdp_resolution(aia_findings) ==
    \E f \in SeqToSet(aia_findings) : f.finding_id = "AIA-MAJ-008"

\* Fault model: a truthiness test that lets docmdp_ok=None through.
DocmdpResolves_notfalse(env) == env.docmdp_ok # "false"

\* Step 3 of SealTrustVerification.run: `docmdp_ok is True`.
DocmdpResolves(env) == env.docmdp_ok = "true"

\* Exceptions other than pikepdf.PdfError and SignatureValidationError leave
\* run() and reach the coordinator.
StvRaises(env) == env.exc = "other"

\* SealTrustVerification.run for the runs that return.
SealTrustVerificationRun(env, aia_findings) ==
    IF env.exc = "PdfError" THEN _fail_result(<<StvFinding("STV-CRIT-005")>>)
    ELSE IF env.exc = "SignatureValidationError"
    THEN _fail_result(<<StvFinding("STV-CRIT-006")>>)
    ELSE IF ~env.signatures THEN _fail_result(<<StvFinding("STV-CRIT-001")>>)
    ELSE IF ~env.api_status THEN _fail_result(<<StvFinding("STV-CRIT-002")>>)
    ELSE IF ~(env.valid /\ env.trusted)
    THEN _fail_result(<<StvFinding("STV-CRIT-002")>>)
    ELSE IF needs_docmdp_resolution(aia_findings)
    THEN IF DocmdpResolves(env)
         THEN SealTrustResult(TRUE, "true", <<>>, <<"AIA-MAJ-008">>)
         ELSE _fail_result(<<StvFinding("STV-CRIT-003")>>)
    ELSE SealTrustResult(TRUE, "true", <<>>, <<>>)

(***************************************************************************)
(* Semantic audit pipeline                                                 *)
(***************************************************************************)

\* LDVPProtocol.PASS_ORDER and LDVPSandboxProtocol.PASS_ORDER.
PASS_ORDER(proto) ==
    IF proto = "LDVP"
    THEN <<"P1", "P2", "P3", "P4", "P5", "P6", "P7", "P8">>
    ELSE IF proto = "LDVP-SANDBOX" THEN <<"P1">>
    ELSE <<>>

Protocols == {"none", "LDVP-SANDBOX", "LDVP"}

\* The advisory signals the coordinator looks for in a Pass 8 result.
AdvisorySignals ==
    {"DELIVERY_NOT_RECOMMENDED", "DELIVERY_REVIEW_REQUIRED"}

SemanticAuditPassResult(pass_id, executed, findings, signals, exec_error) ==
    [pass_id |-> pass_id, executed |-> executed, findings |-> findings,
     advisory_signals |-> signals, execution_error |-> exec_error]

\* LDVPFindingAdapter.adapt: a semantic finding, open, never requires_stv;
\* the id is protocol-pass-SEVERITY-suffix.
SemanticFinding(pass_id, sev, tag, meta) ==
    Finding("LDVP-" \o pass_id \o "-" \o tag, "semantic_audit", sev, "open",
            FALSE, meta)

\* The failure types of StructuredLLMExecutionResult.
FailureTypes ==
    {"timeout", "retry_exhausted", "schema_violation", "refusal",
     "unexpected_error"}

\* LDVPFindingAdapter.adapt_execution_failure: severity by failure type; the
\* id suffix is a digest of protocol, version, pass and failure type.
adapt_execution_failure(pass_id, failure_type) ==
    SemanticFinding(pass_id,
                    CASE failure_type = "timeout" -> "minor"
                      [] failure_type = "refusal" -> "info"
                      [] OTHER -> "major",
                    "EXECUTION-" \o failure_type, "none")

\* The execution-failure finding of a pass whose output broke the schema.
ExecutionFailureFinding(pass_id) ==
    adapt_execution_failure(pass_id, "schema_violation")

\* No LDVP pass is being run.
NoPassRun == [state |-> "idle"]

\* The components modelled apart from run_audit have not been used.
ComponentsIdle ==
    /\ pass_run = NoPassRun
    /\ adapted = <<>>
    /\ emit_run = [state |-> "idle"]
    /\ sse = [state |-> "idle"]
    /\ signing = [state |-> "idle"]
    /\ codec = [state |-> "idle"]
    /\ hsm = [pc |-> "idle"]
    /\ llm = [state |-> "idle"]
    /\ container = [state |-> "idle"]
    /\ shared = [state |-> "idle"]
    /\ extraction = [state |-> "idle"]
    /\ coverage = [state |-> "idle"]

\* The results a pass satisfying the SemanticAuditPass interface may return:
\* no finding, an ordinary finding, a finding carrying stop_condition, or the
\* single execution-failure finding. Only Pass 8 results are read for
\* advisory_signals, so only they vary in them.
PassOutputs(pass_id) ==
    LET sigs == IF pass_id = "P8" THEN SUBSET AdvisorySignals ELSE {{}}
    IN  {SemanticAuditPassResult(pass_id, TRUE, fs, sg, FALSE) :
            fs \in {<<>>,
                    <<SemanticFinding(pass_id, "critical", "CRITICAL", "none")>>,
                    <<SemanticFinding(pass_id, "major", "MAJOR", "stop_condition")>>},
            sg \in sigs}
        \cup {SemanticAuditPassResult(pass_id, TRUE,
                                      <<ExecutionFailureFinding(pass_id)>>, sg, TRUE) :
                sg \in sigs}

\* Fault model: the STOP inspection never sets stop_requested.
StopFlag_never(findings) == FALSE

\* pipeline.py, STOP inspection of the findings of the pass just run.
StopFlag(findings) ==
    \E f \in SeqToSet(findings) :
        f.source = "semantic_audit" /\ f.metadata = "stop_condition"

SemanticAuditResult(executed, proto, results, findings) ==
    [executed |-> executed, protocol_id |-> proto, pass_results |-> results,
     findings |-> findings]

_semantic_not_executed == SemanticAuditResult(FALSE, "none", <<>>, <<>>)

_seal_trust_not_executed == SealTrustResult(FALSE, "none", <<>>, <<>>)

\* Number of pass results so far that carry a finding.
RECURSIVE FindingPasses(_)
FindingPasses(results) ==
    IF results = <<>> THEN 0
    ELSE (IF Head(results).findings # <<>> THEN 1 ELSE 0)
         + FindingPasses(Tail(results))

(***************************************************************************)
(* Verification report and coordinator helpers                             *)
(***************************************************************************)

AuditStatus == {"pass", "fail", "not_evaluated"}

DeliveryRecommendation == {"ready", "not_ready", "expert_review_required"}

VerificationReport(status, recommendation, ai, sem, st, findings) ==
    [status |-> status, delivery_recommendation |-> recommendation,
     artifact_integrity |-> ai, semantic_audit |-> sem, seal_trust |-> st,
     findings |-> findings]

\* Fault model: enforce_audit_flow without the rule on status PASS.
enforce_audit_flow_nopassrule(r) ==
    ~(~r.artifact_integrity.passed /\ r.semantic_audit.executed)

\* VerificationReport.enforce_audit_flow: TRUE when construction succeeds.
enforce_audit_flow(r) ==
    /\ ~(~r.artifact_integrity.passed /\ r.semantic_audit.executed)
    /\ ~(r.status = "pass" /\ ~r.artifact_integrity.passed)

\* No report has been returned or constructed.
NoReport == [status |-> "none"]

\* A directly constructed schema object, or none.
Constructed(kind, value) == [kind |-> kind, value |-> value]

NotConstructed == [kind |-> "none"]

\* No AIA result yet (a real result always names the checks it executed).
NoArtifactIntegrity == ArtifactIntegrityResult(FALSE, <<>>, <<>>, NoSignals)

\* Fault model: the AIA hard gate never fires.
AiaGate_never(ai) == FALSE

\* run_audit, step 1: `if not artifact_integrity.passed`.
AiaGate(ai) == ~ai.passed

\* run_audit, step 2: the findings with requires_stv=True.
stv_required_findings(findings) ==
    SelectSeq(findings, LAMBDA f : f.requires_stv)

\* Fault model: the STV requirement gate never fires.
StvGate_never(ai, configured) == FALSE

\* run_audit, step 2: `stv_required_findings and self._seal_trust_verifier is None`.
StvGate(ai, configured) ==
    stv_required_findings(ai.findings) # <<>> /\ ~configured

\* Fault model: post-STV resolution leaves the findings as they are.
ResolveFindings_noop(findings, resolved_ids) == findings

\* Fault model: the resolved copy also drops the requires_stv flag.
ResolveFindings_clears_flag(findings, resolved_ids) ==
    [i \in DOMAIN findings |->
        IF findings[i].finding_id \in SeqToSet(resolved_ids)
        THEN [findings[i] EXCEPT !.status = "resolved", !.requires_stv = FALSE]
        ELSE findings[i]]

\* run_audit, step 5: findings whose id STV resolved are replaced by copies
\* with status=resolved; every finding of the flattened list is considered.
ResolveFindings(findings, resolved_ids) ==
    IF resolved_ids # <<>>
    THEN [i \in DOMAIN findings |->
            IF findings[i].finding_id \in SeqToSet(resolved_ids)
            THEN [findings[i] EXCEPT !.status = "resolved"]
            ELSE findings[i]]
    ELSE findings

\* Fault model: the loop tests DELIVERY_REVIEW_REQUIRED first.
RECURSIVE P8Outcome_swapped(_)
P8Outcome_swapped(results) ==
    IF results = <<>> THEN <<"pass", "ready">>
    ELSE LET r == Head(results)
         IN  IF r.pass_id = "P8" /\ "DELIVERY_REVIEW_REQUIRED" \in r.advisory_signals
             THEN <<"pass", "expert_review_required">>
             ELSE IF r.pass_id = "P8" /\ "DELIVERY_NOT_RECOMMENDED" \in r.advisory_signals
             THEN <<"fail", "not_ready">>
             ELSE P8Outcome_swapped(Tail(results))

\* _determine_outcome, the loop over semantic_audit.pass_results.
RECURSIVE P8Outcome(_)
P8Outcome(results) ==
    IF results = <<>> THEN <<"pass", "ready">>
    ELSE LET r == Head(results)
         IN  IF r.pass_id = "P8" /\ "DELIVERY_NOT_RECOMMENDED" \in r.advisory_signals
             THEN <<"fail", "not_ready">>
             ELSE IF r.pass_id = "P8" /\ "DELIVERY_REVIEW_REQUIRED" \in r.advisory_signals
             THEN <<"pass", "expert_review_required">>
             ELSE P8Outcome(Tail(results))

\* Fault model: _determine_outcome without the STV check.
_determine_outcome_nostv(ai, sem, st) ==
    IF ~ai.passed THEN <<"fail", "not_ready">>
    ELSE P8Outcome(sem.pass_results)

\* Fault model: _determine_outcome failing on critical semantic findings.
_determine_outcome_semgate(ai, sem, st) ==
    IF ~ai.passed THEN <<"fail", "not_ready">>
    ELSE IF st.executed /\ st.trusted = "false" THEN <<"fail", "not_ready">>
    ELSE IF _has_fatal_findings(sem.findings) THEN <<"fail", "not_ready">>
    ELSE P8Outcome(sem.pass_results)

\* _determine_outcome: <<status, delivery_recommendation>>.
_determine_outcome(ai, sem, st) ==
    IF ~ai.passed THEN <<"fail", "not_ready">>
    ELSE IF st.executed /\ st.trusted = "false" THEN <<"fail", "not_ready">>
    ELSE P8Outcome(sem.pass_results)

\* _finalize_report followed by `return report`; a ValueError raised by the
\* report validator leaves run_audit through its except clause.
_finalize_report(ai, sem, st, findings, status, recommendation) ==
    LET r == VerificationReport(status, recommendation, ai, sem, st, findings)
    IN  IF enforce_audit_flow(r)
        THEN report' = r /\ pc' = "done"
        ELSE report' = NoReport /\ pc' = "raised"

(***************************************************************************)
(* AuditorCoordinator.run_audit                                            *)
(***************************************************************************)

pipeline_vars == <<pass_idx, pass_results, stop_requested, ctx_all_findings>>

\* The state run_audit never writes.
config_vars == <<stv_configured, protocol, constructed, other_vars>>

Init ==
    /\ stv_configured \in BOOLEAN
    /\ protocol \in Protocols
    /\ pc = "start"
    /\ calls = {}
    /\ artifact_integrity = NoArtifactIntegrity
    /\ semantic_audit = _semantic_not_executed
    /\ seal_trust = _seal_trust_not_executed
    /\ stv_env = NoStvEnv
    /\ all_findings = <<>>
    /\ pass_idx = 0
    /\ pass_results = <<>>
    /\ stop_requested = FALSE
    /\ ctx_all_findings = <<>>
    /\ report = NoReport
    /\ constructed = NotConstructed
    /\ ComponentsIdle

\* Steps 1 and 2: AIA, the AIA hard gate and the STV requirement gate.
RunAIA ==
    /\ pc = "start"
    /\ \E pdf \in Pdfs :
        LET ai == ArtifactIntegrityAuditRun(pdf)
        IN  /\ calls' = calls \cup {"aia"}
            /\ artifact_integrity' =
                  IF enforce_aia_invariants(ai) THEN ai ELSE artifact_integrity
            /\ IF ~enforce_aia_invariants(ai)
               THEN /\ pc' = "raised"
                    /\ UNCHANGED <<all_findings, report>>
               ELSE IF AiaGate(ai)
               THEN /\ all_findings' = ai.findings
                    /\ _finalize_report(ai, _semantic_not_executed,
                                        _seal_trust_not_executed, ai.findings,
                                        "fail", "not_ready")
               ELSE IF StvGate(ai, stv_configured)
               THEN /\ all_findings' = ai.findings \o <<StvGateFinding>>
                    /\ _finalize_report(ai, _semantic_not_executed,
                                        _seal_trust_not_executed,
                                        ai.findings \o <<StvGateFinding>>,
                                        "fail", "not_ready")
               ELSE /\ all_findings' = ai.findings
                    /\ pc' = "semantic"
                    /\ report' = report
    /\ UNCHANGED <<config_vars, semantic_audit, seal_trust, stv_env,
                   pipeline_vars>>

\* Step 3 without a pipeline: the synthesized "not executed" result.
SemanticSkipped ==
    /\ pc = "semantic"
    /\ protocol = "none"
    /\ semantic_audit' = _semantic_not_executed
    /\ all_findings' = all_findings \o _semantic_not_executed.findings
    /\ pc' = "stv"
    /\ UNCHANGED <<config_vars, calls, artifact_integrity, seal_trust,
                   stv_env, pipeline_vars, report>>

\* Step 3: `await self._semantic_audit_pipeline.run(...)` is entered.
PipelineStart ==
    /\ pc = "semantic"
    /\ protocol # "none"
    /\ calls' = calls \cup {"semantic"}
    /\ pass_idx' = 1
    /\ pass_results' = <<>>
    /\ stop_requested' = FALSE
    /\ ctx_all_findings' = <<>>
    /\ pc' = "pipeline"
    /\ UNCHANGED <<config_vars, artifact_integrity, semantic_audit,
                   seal_trust, stv_env, all_findings, report>>

\* The call of the pipeline raises (for one, a TypeError for keyword
\* arguments the callee does not declare): run_audit re-raises.
PipelineRaises ==
    /\ pc = "semantic"
    /\ protocol # "none"
    /\ calls' = calls \cup {"semantic"}
    /\ pc' = "raised"
    /\ UNCHANGED <<config_vars, artifact_integrity, semantic_audit,
                   seal_trust, stv_env, all_findings, pipeline_vars, report>>

\* Fault model: a pass skipped after a STOP leaves no entry in pass_results.
RunPass_skips_unrecorded ==
    /\ pc = "pipeline"
    /\ pass_idx <= Len(PASS_ORDER(protocol))
    /\ LET pass_id == PASS_ORDER(protocol)[pass_idx]
       IN  IF stop_requested
           THEN /\ pass_results' = pass_results
                /\ UNCHANGED <<stop_requested, ctx_all_findings>>
           ELSE \E result \in PassOutputs(pass_id) :
                /\ result.findings # <<>>
                      => FindingPasses(pass_results) < MaxFindingPasses
                /\ pass_results' = Append(pass_results, result)
                /\ ctx_all_findings' = ctx_all_findings \o result.findings
                /\ stop_requested' =
                      IF StopFlag(result.findings) THEN TRUE ELSE stop_requested
    /\ pass_idx' = pass_idx + 1
    /\ UNCHANGED <<config_vars, pc, calls, artifact_integrity, semantic_audit,
                   seal_trust, stv_env, all_findings, report>>

\* One iteration of the pass loop of SemanticAuditPipeline.run.
RunPass ==
    /\ pc = "pipeline"
    /\ pass_idx <= Len(PASS_ORDER(protocol))
    /\ LET pass_id == PASS_ORDER(protocol)[pass_idx]
       IN  IF stop_requested
           THEN /\ pass_results' =
                      Append(pass_results,
                             SemanticAuditPassResult(pass_id, FALSE, <<>>, {}, FALSE))
                /\ UNCHANGED <<stop_requested, ctx_all_findings>>
           ELSE \E result \in PassOutputs(pass_id) :
                /\ result.findings # <<>>
                      => FindingPasses(pass_results) < MaxFindingPasses
                /\ pass_results' = Append(pass_results, result)
                /\ ctx_all_findings' = ctx_all_findings \o result.findings
                /\ stop_requested' =
                      IF StopFlag(result.findings) THEN TRUE ELSE stop_requested
    /\ pass_idx' = pass_idx + 1
    /\ UNCHANGED <<config_vars, pc, calls, artifact_integrity, semantic_audit,
                   seal_trust, stv_env, all_findings, report>>

\* The pipeline returns; run_audit extends all_findings with its findings.
PipelineReturn ==
    /\ pc = "pipeline"
    /\ pass_idx > Len(PASS_ORDER(protocol))
    /\ semantic_audit' =
          SemanticAuditResult(TRUE, protocol, pass_results, ctx_all_findings)
    /\ all_findings' = all_findings \o ctx_all_findings
    /\ pc' = "stv"
    /\ UNCHANGED <<config_vars, calls, artifact_integrity, seal_trust,
                   stv_env, pipeline_vars, report>>

\* Steps 4 and 5 and the final disposition, given the STV result.
Disposition(st) ==
    LET findings == ResolveFindings(all_findings \o st.findings,
                                    st.resolved_aia_finding_ids)
        outcome  == _determine_outcome(artifact_integrity, semantic_audit, st)
    IN  /\ seal_trust' = st
        /\ all_findings' = findings
        /\ _finalize_report(artifact_integrity, semantic_audit, st, findings,
                            outcome[1], outcome[2])

\* Step 4 without a verifier.
SealTrustSkipped ==
    /\ pc = "stv"
    /\ ~stv_configured
    /\ Disposition(_seal_trust_not_executed)
    /\ UNCHANGED <<config_vars, calls, artifact_integrity, semantic_audit,
                   stv_env, pipeline_vars>>

\* Step 4: `await self._seal_trust_verifier.run(pdf_bytes, aia_findings=...)`.
SealTrustRun ==
    /\ pc = "stv"
    /\ stv_configured
    /\ \E env \in StvEnvs :
        /\ ~StvRaises(env)
        /\ stv_env' = env
        /\ Disposition(SealTrustVerificationRun(env, artifact_integrity.findings))
    /\ calls' = calls \cup {"stv"}
    /\ UNCHANGED <<config_vars, artifact_integrity, semantic_audit,
                   pipeline_vars>>

\* STV lets a logic error through: run_audit re-raises.
SealTrustRaises ==
    /\ pc = "stv"
    /\ stv_configured
    /\ \E env \in StvEnvs :
        /\ StvRaises(env)
        /\ stv_env' = env
    /\ calls' = calls \cup {"stv"}
    /\ pc' = "raised"
    /\ UNCHANGED <<config_vars, artifact_integrity, semantic_audit,
                   seal_trust, all_findings, pipeline_vars, report>>

\* A caller builds a VerificationReport directly from valid sub-results;
\* the model validator accepts it or raises ValueError.
ConstructReport ==
    /\ pc = "start"
    /\ \E status \in AuditStatus, recommendation \in DeliveryRecommendation,
          ai \in {ArtifactIntegrityResult(FALSE, <<"check">>, <<>>, NoSignals),
                  ArtifactIntegrityResult(TRUE, <<"check">>, <<>>,
                                          Signals("content", "text", "text"))},
          sem \in {_semantic_not_executed,
                   SemanticAuditResult(TRUE, "LDVP", <<>>, <<>>)},
          st \in {_seal_trust_not_executed,
                  SealTrustResult(TRUE, "true", <<>>, <<>>),
                  SealTrustResult(TRUE, "false", <<>>, <<>>)} :
        LET r == VerificationReport(status, recommendation, ai, sem, st, <<>>)
        IN  IF enforce_audit_flow(r)
            THEN report' = r /\ pc' = "constructed"
            ELSE report' = NoReport /\ pc' = "rejected"
    /\ UNCHANGED <<config_vars, calls, artifact_integrity, semantic_audit,
                   seal_trust, stv_env, all_findings, pipeline_vars>>

\* A caller builds a SealTrustResult directly; the model validator accepts
\* it or raises ValueError.
ConstructSealTrustResult ==
    /\ pc = "start"
    /\ \E executed \in BOOLEAN, trusted \in {"true", "false", "none"},
          findings \in {<<>>, <<StvFinding("STV-CRIT-003")>>},
          resolved \in {<<>>, <<"AIA-MAJ-008">>} :
        LET r == SealTrustResult(executed, trusted, findings, resolved)
        IN  IF enforce_stv_invariants(r)
            THEN /\ constructed' = Constructed("SealTrustResult", r)
                 /\ pc' = "constructed"
            ELSE /\ constructed' = NotConstructed
                 /\ pc' = "rejected"
    /\ UNCHANGED <<stv_configured, protocol, calls, artifact_integrity,
                   semantic_audit, seal_trust, stv_env, all_findings,
                   pipeline_vars, report, other_vars>>

Next ==
    \/ RunAIA
    \/ SemanticSkipped
    \/ PipelineStart
    \/ PipelineRaises
    \/ RunPass
    \/ PipelineReturn
    \/ SealTrustSkipped
    \/ SealTrustRun
    \/ SealTrustRaises
    \/ ConstructReport
    \/ ConstructSealTrustResult

Spec == Init /\ [][Next]_vars

(***************************************************************************)
(* Properties                                                              *)
(***************************************************************************)

\* run_audit has returned a report.
Returned == pc = "done"

\* STV was run and returned a result to run_audit.
StvReturned == Returned /\ seal_trust.executed

HasMaj008(findings) == "AIA-MAJ-008" \in FindingIds(findings)

\* Some AIA finding requires STV.
RequiresStv(ai) == \E f \in SeqToSet(ai.findings) : f.requires_stv

\* The audit ended at the STV requirement gate.
GateFired == artifact_integrity.passed /\ RequiresStv(artifact_integrity)
             /\ ~stv_configured

P8Signals(sem) ==
    UNION {r.advisory_signals : r \in {x \in SeqToSet(sem.pass_results) : x.pass_id = "P8"}}

\* C1: every report with status=pass, returned by run_audit or constructed
\* directly, has artifact_integrity.passed=true.
C1_PassRequiresAiaPassed ==
    report.status = "pass" => report.artifact_integrity.passed

C1_Witness ==
    /\ Returned
    /\ report.status = "pass"
    /\ report.artifact_integrity.passed

\* C2: when AIA does not pass, run_audit invokes neither the semantic
\* pipeline nor STV and returns status=fail, delivery_recommendation=not_ready,
\* semantic_audit.executed=false and seal_trust.executed=false.
C2_AiaFailureIsTerminal ==
    ("aia" \in calls /\ ~artifact_integrity.passed) =>
        /\ "semantic" \notin calls
        /\ "stv" \notin calls
        /\ Returned
        /\ report.status = "fail"
        /\ report.delivery_recommendation = "not_ready"
        /\ ~report.semantic_audit.executed
        /\ ~report.seal_trust.executed

C2_Witness ==
    /\ Returned
    /\ ~artifact_integrity.passed
    /\ "AIA-CRIT-034" \in FindingIds(report.findings)

\* C3: when AIA passes, some AIA finding has requires_stv=true and no STV
\* verifier is configured, run_audit appends AIA-CRIT-STV-REQUIRED and returns
\* fail / not_ready without running the semantic pipeline or STV.
C3_StvRequiredGate ==
    ("aia" \in calls /\ artifact_integrity.passed
        /\ RequiresStv(artifact_integrity) /\ ~stv_configured) =>
        /\ Returned
        /\ report.findings = artifact_integrity.findings \o <<StvGateFinding>>
        /\ report.status = "fail"
        /\ report.delivery_recommendation = "not_ready"
        /\ ~report.semantic_audit.executed
        /\ ~report.seal_trust.executed
        /\ "semantic" \notin calls
        /\ "stv" \notin calls

C3_Witness ==
    /\ Returned
    /\ protocol = "LDVP"
    /\ HasMaj008(artifact_integrity.findings)
    /\ "AIA-CRIT-STV-REQUIRED" \in FindingIds(report.findings)

\* C4 as stated: with AIA-MAJ-008 among the input findings, a DocMDP diff
\* result of False or None makes STV emit STV-CRIT-003 and return
\* trusted=false with no resolved finding.
C4_Original ==
    (StvReturned /\ HasMaj008(artifact_integrity.findings)
        /\ stv_env.api_status /\ stv_env.docmdp_ok # "true") =>
        /\ "STV-CRIT-003" \in FindingIds(seal_trust.findings)
        /\ seal_trust.trusted = "false"
        /\ seal_trust.resolved_aia_finding_ids = <<>>

\* C4 amended: with AIA-MAJ-008 among the input findings, a DocMDP diff
\* result of False or None makes STV return trusted=false with no resolved
\* finding; STV-CRIT-003 is the finding emitted when the certification
\* signature validated as valid and trusted.
C4_DocmdpNotTrueFails ==
    (StvReturned /\ HasMaj008(artifact_integrity.findings)
        /\ stv_env.docmdp_ok # "true") =>
        /\ seal_trust.trusted = "false"
        /\ seal_trust.resolved_aia_finding_ids = <<>>
        /\ (stv_env.api_status /\ stv_env.valid /\ stv_env.trusted)
              => "STV-CRIT-003" \in FindingIds(seal_trust.findings)

C4_Witness ==
    /\ StvReturned
    /\ HasMaj008(artifact_integrity.findings)
    /\ stv_env.api_status /\ stv_env.valid /\ stv_env.trusted
    /\ stv_env.docmdp_ok = "none"
    /\ "STV-CRIT-003" \in FindingIds(seal_trust.findings)

\* C5: resolved_aia_finding_ids is ["AIA-MAJ-008"] only if AIA-MAJ-008 was
\* among the input findings, the certification signature validated as valid
\* and trusted and docmdp_ok is exactly True; otherwise it is empty.
C5_ResolutionOnlyOnExactTrue ==
    seal_trust.resolved_aia_finding_ids # <<>> =>
        /\ seal_trust.resolved_aia_finding_ids = <<"AIA-MAJ-008">>
        /\ HasMaj008(artifact_integrity.findings)
        /\ stv_env.api_status /\ stv_env.valid /\ stv_env.trusted
        /\ stv_env.docmdp_ok = "true"

C5_Witness ==
    /\ StvReturned
    /\ seal_trust.resolved_aia_finding_ids = <<"AIA-MAJ-008">>
    /\ stv_env.docmdp_ok = "true"

\* C6: when STV returns trusted=true with resolved_aia_finding_ids =
\* ["AIA-MAJ-008"] and Pass 8 carries no advisory signal, the report lists
\* AIA-MAJ-008 with status=resolved, carries the resolved ids and has
\* status=pass.
C6_ResolvedFindingPasses ==
    (StvReturned /\ seal_trust.trusted = "true"
        /\ seal_trust.resolved_aia_finding_ids = <<"AIA-MAJ-008">>
        /\ P8Signals(semantic_audit) = {}) =>
        /\ report.status = "pass"
        /\ report.seal_trust.resolved_aia_finding_ids = <<"AIA-MAJ-008">>
        /\ HasMaj008(report.findings)
        /\ \A f \in SeqToSet(report.findings) :
              f.finding_id = "AIA-MAJ-008" => f.status = "resolved"

C6_Witness ==
    /\ StvReturned
    /\ seal_trust.resolved_aia_finding_ids = <<"AIA-MAJ-008">>
    /\ P8Signals(semantic_audit) = {}
    /\ \E f \in SeqToSet(report.findings) :
          f.finding_id = "AIA-MAJ-008" /\ f.status = "resolved"

\* C7: whenever STV executed and returned trusted=false, the report is
\* fail / not_ready, whatever the semantic audit returned.
C7_UntrustedSealFails ==
    (StvReturned /\ seal_trust.trusted = "false") =>
        /\ report.status = "fail"
        /\ report.delivery_recommendation = "not_ready"

C7_Witness ==
    /\ StvReturned
    /\ seal_trust.trusted = "false"
    /\ P8Signals(semantic_audit) = {"DELIVERY_REVIEW_REQUIRED"}
    /\ report.status = "fail"

\* C8 as stated: AIA passed, STV did not execute or returned trusted=true,
\* and no Pass 8 advisory signal: the report status is pass.
C8_Original ==
    (Returned /\ artifact_integrity.passed
        /\ (~report.seal_trust.executed \/ report.seal_trust.trusted = "true")
        /\ P8Signals(report.semantic_audit) = {}) =>
        report.status = "pass"

\* C8 amended: as C8, for the audits the STV requirement gate did not end.
C8_SemanticFindingsDoNotGate ==
    (Returned /\ artifact_integrity.passed /\ ~GateFired
        /\ (~report.seal_trust.executed \/ report.seal_trust.trusted = "true")
        /\ P8Signals(report.semantic_audit) = {}) =>
        report.status = "pass"

C8_Witness ==
    /\ Returned
    /\ report.status = "pass"
    /\ _has_fatal_findings(report.semantic_audit.findings)
    /\ \E r \in SeqToSet(report.semantic_audit.pass_results) : r.execution_error
    /\ P8Signals(report.semantic_audit) = {}

\* The outcome the Pass 8 advisory signals call for.
ExpectedOutcome(sem) ==
    IF "DELIVERY_NOT_RECOMMENDED" \in P8Signals(sem)
    THEN <<"fail", "not_ready">>
    ELSE IF "DELIVERY_REVIEW_REQUIRED" \in P8Signals(sem)
    THEN <<"pass", "expert_review_required">>
    ELSE <<"pass", "ready">>

StvInvariants(r) ==
    /\ (r.trusted = "none") <=> ~r.executed
    /\ r.resolved_aia_finding_ids # <<>> => (r.executed /\ r.trusted = "true")

\* C11: every SealTrustResult produced (by STV, by the coordinator when STV
\* is skipped, inside a report, or by direct construction) has trusted null
\* exactly when executed=false, and has resolved_aia_finding_ids empty unless
\* executed=true and trusted=true.
C11_SealTrustResultInvariants ==
    /\ StvInvariants(seal_trust)
    /\ report.status # "none" => StvInvariants(report.seal_trust)
    /\ constructed.kind = "SealTrustResult" => StvInvariants(constructed.value)

C11_Witness ==
    /\ constructed.kind = "SealTrustResult"
    /\ constructed.value.executed
    /\ constructed.value.trusted = "true"
    /\ constructed.value.resolved_aia_finding_ids = <<"AIA-MAJ-008">>

\* The AIA output invariants of an ArtifactIntegrityResult.
AiaInvariants(r) ==
    IF r.passed
    THEN /\ r.document_content # "none"
         /\ r.content_derived_text # "none"
         /\ r.visible_text # "none"
    ELSE /\ r.document_content = "none"
         /\ r.content_derived_text = "none"
         /\ r.visible_text = "none"

\* C12: AIA always returns a result; the result carries document_content,
\* content_derived_text and visible_text when passed=true and none of them
\* when passed=false; passed is decided by the findings of the checks alone,
\* so a failed visible-text extraction (empty text) leaves passed=true.
C12_AiaOutputInvariants ==
    "aia" \in calls =>
        /\ artifact_integrity # NoArtifactIntegrity
        /\ AiaInvariants(artifact_integrity)
        /\ artifact_integrity.passed
              <=> ~_has_fatal_findings(artifact_integrity.findings)

C12_Witness ==
    /\ "aia" \in calls
    /\ artifact_integrity.passed
    /\ artifact_integrity.visible_text = ""
    /\ artifact_integrity.document_content = "content"

\* A semantic-audit finding of the list carries metadata.stop_condition=True.
HasStopFinding(findings) ==
    \E i \in 1..Len(findings) :
        /\ findings[i].source = "semantic_audit"
        /\ findings[i].metadata = "stop_condition"

\* Every pass result after one with a STOP finding is a skipped one.
StopShortCircuit(results) ==
    \A i, j \in 1..Len(results) :
        (i < j /\ HasStopFinding(results[i].findings)) =>
            /\ ~results[j].executed
            /\ results[j].findings = <<>>

\* The results name the passes of the protocol, in order.
PassTimeline(results, proto) ==
    /\ Len(results) = Len(PASS_ORDER(proto))
    /\ \A k \in 1..Len(results) : results[k].pass_id = PASS_ORDER(proto)[k]

StopOccurred(sem) ==
    \E k \in 1..Len(sem.pass_results) : ~sem.pass_results[k].executed

\* The semantic result of the same audit had the STOP not occurred: the
\* passes that were skipped run, and Pass 8 returns r8.
WithoutStop(sem, r8) ==
    [sem EXCEPT !.pass_results =
        [k \in 1..Len(sem.pass_results) |->
            IF ~sem.pass_results[k].executed /\ sem.pass_results[k].pass_id = "P8"
            THEN r8 ELSE sem.pass_results[k]]]

MaxChunks == 2

\* run_audit is not running: the state the other components start from.
AuditIdle ==
    /\ stv_configured = FALSE
    /\ protocol = "none"
    /\ pc = "start"
    /\ calls = {}
    /\ artifact_integrity = NoArtifactIntegrity
    /\ semantic_audit = _semantic_not_executed
    /\ seal_trust = _seal_trust_not_executed
    /\ stv_env = NoStvEnv
    /\ all_findings = <<>>
    /\ pass_idx = 0
    /\ pass_results = <<>>
    /\ stop_requested = FALSE
    /\ ctx_all_findings = <<>>
    /\ report = NoReport
    /\ constructed = NotConstructed

\* What a pass run leaves alone.
pass_frame ==
    <<audit_vars, adapted, emit_run, sse, signing, codec, hsm, llm,
      container, shared, extraction,
      coverage>>

\* Passes that make one LLM call, and passes that make one call per chunk.
SingleCallPasses == {"P1", "P8"}

ChunkedPasses == {"P3", "P6", "P7"}

\* What StructuredLLMExecutor.execute returns: success without or with a raw
\* finding, or success=False with a failure type. It never raises.
LlmOutcomes == {"success", "success_finding"} \cup FailureTypes

\* The findings a pass derives from one execution result.
CallFindings(pass_id, outcome) ==
    IF outcome \in FailureTypes
    THEN <<adapt_execution_failure(pass_id, outcome)>>
    ELSE IF outcome = "success_finding"
    THEN <<SemanticFinding(pass_id, "major", "MAJOR", "none")>>
    ELSE <<>>

Failed(outcome) == IF outcome \in FailureTypes THEN 1 ELSE 0

PassRun(state, pass_id, chunks_left, findings, failed_calls, saw, result) ==
    [state |-> state, pass_id |-> pass_id, chunks_left |-> chunks_left,
     findings |-> findings, failed_calls |-> failed_calls,
     saw_token_metrics |-> saw, result |-> result]

NoPassResult == [executed |-> FALSE]

\* LDVPPass1ContextMapping.run / LDVPPass8DeliveryReadiness.run: one call;
\* a failure returns the failure finding and execution_error.
RunSingleCallPass ==
    /\ pass_run.state = "idle"
    /\ \E pass_id \in SingleCallPasses, outcome \in LlmOutcomes :
        pass_run' =
            PassRun("returned", pass_id, 0, CallFindings(pass_id, outcome),
                    Failed(outcome), outcome \notin FailureTypes,
                    SemanticAuditPassResult(pass_id, TRUE,
                                            CallFindings(pass_id, outcome), {},
                                            outcome \in FailureTypes))
    /\ UNCHANGED pass_frame

\* Passes 3, 6 and 7: the text is chunked (never into zero chunks).
StartChunkedPass ==
    /\ pass_run.state = "idle"
    /\ \E pass_id \in ChunkedPasses, n \in 1..MaxChunks :
        pass_run' = PassRun("chunks", pass_id, n, <<>>, 0, FALSE, NoPassResult)
    /\ UNCHANGED pass_frame

\* The chunker call raises (the passes name a keyword or a context attribute
\* the callee does not declare) before any LLM call is made.
ChunkerRaises ==
    /\ pass_run.state = "idle"
    /\ \E pass_id \in ChunkedPasses :
        pass_run' = PassRun("raised", pass_id, 0, <<>>, 0, FALSE, NoPassResult)
    /\ UNCHANGED pass_frame

\* One iteration of the chunk loop: Pass 6 skips a non-operative chunk;
\* otherwise one LLM call, whose failure appends a failure finding.
ExecuteChunk ==
    /\ pass_run.state = "chunks"
    /\ pass_run.chunks_left > 0
    /\ \/ /\ pass_run.pass_id = "P6"
          /\ pass_run' = [pass_run EXCEPT !.chunks_left = @ - 1]
       \/ \E outcome \in LlmOutcomes :
            pass_run' =
                [pass_run EXCEPT
                    !.chunks_left = @ - 1,
                    !.findings = @ \o CallFindings(pass_run.pass_id, outcome),
                    !.failed_calls = @ + Failed(outcome),
                    !.saw_token_metrics = @ \/ outcome \notin FailureTypes]
    /\ UNCHANGED pass_frame

\* After the loop: Pass 6 makes one more call when no call returned token
\* metrics and ignores whether it succeeded; the pass returns its findings.
ReturnChunkedPass ==
    /\ pass_run.state = "chunks"
    /\ pass_run.chunks_left = 0
    /\ \E outcome \in LlmOutcomes :
        LET extra == pass_run.pass_id = "P6" /\ ~pass_run.saw_token_metrics
        IN  /\ ~extra => outcome = "success"
            /\ pass_run' =
                [pass_run EXCEPT
                    !.state = "returned",
                    !.failed_calls = @ + (IF extra THEN Failed(outcome) ELSE 0),
                    !.result = SemanticAuditPassResult(pass_run.pass_id, TRUE,
                                                       pass_run.findings, {},
                                                       FALSE)]
    /\ UNCHANGED pass_frame

InitPass == AuditIdle /\ ComponentsIdle

NextPass ==
    \/ RunSingleCallPass
    \/ StartChunkedPass
    \/ ChunkerRaises
    \/ ExecuteChunk
    \/ ReturnChunkedPass

SpecPass == InitPass /\ [][NextPass]_vars

\* The execution-failure findings in the result of a pass.
ExecutionFailureFindings(result) ==
    {i \in 1..Len(result.findings) :
        result.findings[i].finding_id \in
            {adapt_execution_failure(result.pass_id, ft).finding_id :
                ft \in FailureTypes}}

Contents ==
    {<<<<1, "Acme">>, <<2, "1000">>>>,
     <<<<2, "1000">>, <<1, "Acme">>>>,
     <<<<1, "Acme">>, <<2, "2000">>>>}

\* Insert a pair into a sequence sorted by key.
RECURSIVE InsertByKey(_, _)
InsertByKey(pair, sorted) ==
    IF sorted = <<>> THEN <<pair>>
    ELSE IF pair[1] <= Head(sorted)[1] THEN <<pair>> \o sorted
    ELSE <<Head(sorted)>> \o InsertByKey(pair, Tail(sorted))

\* _canonicalize_payload: json.dumps with sort_keys=True.
RECURSIVE _canonicalize_payload(_)
_canonicalize_payload(document_content) ==
    IF document_content = <<>> THEN <<>>
    ELSE InsertByKey(Head(document_content),
                     _canonicalize_payload(Tail(document_content)))

\* _stable_finding_suffix: the first 12 hex digits of SHA-256 of the
\* material, taken as collision-free.
_stable_finding_suffix(material) == [sha256_12 |-> material]

\* The adapter (protocol_id "LDVP") and the arguments of adapt.
AdaptInputs ==
    [protocol_version : {"2.3", "2.4"},
     pass_id          : {"P1", "P7"},
     rule_id          : {"none", "R_TEST", "R_OTHER"},
     category         : {"risk", "structure"},
     location         : {"none", "", "Section 5.2"},
     severity         : {"major", "minor"},
     title            : {"Test finding", "Other wording"},
     sequence         : {0, 99},
     document_content : Contents]

\* The inputs of the first of the two adaptations compared.
ReferenceInputs ==
    {i \in AdaptInputs :
        /\ i.protocol_version = "2.3" /\ i.pass_id = "P7"
        /\ i.rule_id = "R_TEST" /\ i.category = "risk"
        /\ i.severity = "major" /\ i.title = "Test finding"
        /\ i.sequence = 0}

\* adapt, the finding_id it builds: protocol, pass, upper-cased severity and
\* the digest of protocol, version, pass, rule, category, location or ""
\* and the canonical content.
adapt_finding_id(i) ==
    <<"LDVP", i.pass_id, i.severity,
      _stable_finding_suffix(
          <<"LDVP", i.protocol_version, i.pass_id, i.rule_id, i.category,
            IF i.location = "none" THEN "" ELSE i.location,
            _canonicalize_payload(i.document_content)>>)>>

\* What the adapter leaves alone.
adapt_frame ==
    <<audit_vars, pass_run, emit_run, sse, signing, codec, hsm, llm,
      container, shared, extraction,
      coverage>>

\* adapt returns a finding: the inputs are kept next to the id.
Adapt ==
    /\ Len(adapted) < 2
    /\ \E i \in (IF adapted = <<>> THEN ReferenceInputs ELSE AdaptInputs) :
        /\ i.rule_id # "none"
        /\ adapted' = Append(adapted, [input |-> i, raised |-> FALSE,
                                       finding_id |-> adapt_finding_id(i)])
    /\ UNCHANGED adapt_frame

\* adapt raises ValueError for a raw finding without rule_id.
AdaptRaises ==
    /\ Len(adapted) = 1
    /\ \E i \in AdaptInputs :
        /\ i.rule_id = "none"
        /\ adapted' = Append(adapted, [input |-> i, raised |-> TRUE,
                                       finding_id |-> <<>>])
    /\ UNCHANGED adapt_frame

InitAdapt == AuditIdle /\ ComponentsIdle

NextAdapt ==
    \/ Adapt
    \/ AdaptRaises

SpecAdapt == InitAdapt /\ [][NextAdapt]_vars

\* Two adaptations agree on protocol version, pass id, rule id, category,
\* location and canonical Document Content.
SameIdentity(a, b) ==
    /\ a.protocol_version = b.protocol_version
    /\ a.pass_id = b.pass_id
    /\ a.rule_id = b.rule_id
    /\ a.category = b.category
    /\ a.location = b.location
    /\ _canonicalize_payload(a.document_content)
          = _canonicalize_payload(b.document_content)

\* C16: two findings adapted with the same protocol version, pass id, rule
\* id, category, location and canonical Document Content get the same
\* finding_id, whatever the LLM-generated fields, the sequence number and the
\* key order of the content.
C16_StableFindingId ==
    (Len(adapted) = 2 /\ ~adapted[2].raised
        /\ SameIdentity(adapted[1].input, adapted[2].input)) =>
        adapted[1].finding_id = adapted[2].finding_id

(***************************************************************************)
(* run_audit and the attached event emitter                                *)
(***************************************************************************)

\* What one call of run_audit meets: how AIA ends ("fail", "gate" for the
\* STV requirement gate, "pass"), whether a semantic pipeline and an STV
\* verifier are configured, and whether the emitter's emit() can raise.
EmitConfigs ==
    [aia : {"fail", "gate", "pass"}, pipeline : BOOLEAN, stv : BOOLEAN,
     emitter : {"null", "raising"}]

Emit(event_type) == [kind |-> "emit", name |-> event_type]

Call(stage) == [kind |-> "call", name |-> stage]

\* The emissions and stage calls of run_audit, in program order, when
\* nothing raises.
RunAuditSteps(cfg) ==
    <<Emit("AUDIT_STARTED"), Emit("AIA_STARTED"), Call("aia"),
      Emit("AIA_COMPLETED")>>
    \o (IF cfg.aia # "pass" THEN <<>>
        ELSE (IF cfg.pipeline
              THEN <<Emit("SEMANTIC_AUDIT_STARTED"), Call("semantic"),
                     Emit("SEMANTIC_AUDIT_COMPLETED")>>
              ELSE <<>>)
             \o (IF cfg.stv
                 THEN <<Emit("SEAL_TRUST_STARTED"), Call("stv"),
                        Emit("SEAL_TRUST_COMPLETED")>>
                 ELSE <<>>))
    \o <<Emit("AUDIT_COMPLETED")>>

RECURSIVE CallsOf(_)
CallsOf(steps) ==
    IF steps = <<>> THEN <<>>
    ELSE (IF Head(steps).kind = "call" THEN <<Head(steps).name>> ELSE <<>>)
         \o CallsOf(Tail(steps))

\* What the emitter model leaves alone.
emit_frame ==
    <<audit_vars, pass_run, adapted, sse, signing, codec, hsm, llm,
      container, shared, extraction,
      coverage>>

\* run_audit is called.
StartAudit ==
    /\ emit_run.state = "idle"
    /\ \E cfg \in EmitConfigs :
        emit_run' = [state |-> "running", cfg |-> cfg, i |-> 1,
                     calls |-> <<>>, events |-> <<>>]
    /\ UNCHANGED emit_frame

\* `await emitter.emit(...)`: the event is taken, or emit() raises. The first
\* emission is outside the try block; the others are inside it, so the
\* exception reaches the except clause.
EmitEvent ==
    /\ emit_run.state = "running"
    /\ emit_run.i <= Len(RunAuditSteps(emit_run.cfg))
    /\ RunAuditSteps(emit_run.cfg)[emit_run.i].kind = "emit"
    /\ \/ emit_run' =
            [emit_run EXCEPT
                !.events = Append(@, RunAuditSteps(emit_run.cfg)[emit_run.i].name),
                !.i = @ + 1]
       \/ /\ emit_run.cfg.emitter = "raising"
          /\ emit_run' =
                [emit_run EXCEPT
                    !.state = IF emit_run.i = 1 THEN "raised" ELSE "failing"]
    /\ UNCHANGED emit_frame

\* A stage (AIA, semantic pipeline, STV) is run.
StageCall ==
    /\ emit_run.state = "running"
    /\ emit_run.i <= Len(RunAuditSteps(emit_run.cfg))
    /\ RunAuditSteps(emit_run.cfg)[emit_run.i].kind = "call"
    /\ emit_run' =
          [emit_run EXCEPT
              !.calls = Append(@, RunAuditSteps(emit_run.cfg)[emit_run.i].name),
              !.i = @ + 1]
    /\ UNCHANGED emit_frame

\* `return report`.
ReturnReport ==
    /\ emit_run.state = "running"
    /\ emit_run.i > Len(RunAuditSteps(emit_run.cfg))
    /\ emit_run' = [emit_run EXCEPT !.state = "returned"]
    /\ UNCHANGED emit_frame

\* The except clause: AUDIT_FAILED is emitted (emit() may raise again) and
\* the exception is re-raised.
ExceptClause ==
    /\ emit_run.state = "failing"
    /\ \/ emit_run' = [emit_run EXCEPT !.state = "raised",
                                       !.events = Append(@, "AUDIT_FAILED")]
       \/ emit_run' = [emit_run EXCEPT !.state = "raised"]
    /\ UNCHANGED emit_frame

InitEmit == AuditIdle /\ ComponentsIdle

NextEmit ==
    \/ StartAudit
    \/ EmitEvent
    \/ StageCall
    \/ ReturnReport
    \/ ExceptClause

SpecEmit == InitEmit /\ [][NextEmit]_vars

\* C17: an emitter whose emit() raises does not alter the audit: run_audit
\* never leaves through an exception because of it, and when it returns it
\* has run the same stages as with a null emitter.
C17_EmitterFailureIsDiscarded ==
    emit_run.state # "idle" =>
        /\ emit_run.state \notin {"failing", "raised"}
        /\ emit_run.state = "returned" =>
              emit_run.calls = CallsOf(RunAuditSteps(emit_run.cfg))

(***************************************************************************)
(* Streamed audit: audit_document_stream and MemoryQueueEventEmitter       *)
(***************************************************************************)

\* Largest number of progress events one audit emits before its final event.
MaxEvents == 4

\* What the streamed audit leaves alone.
sse_frame ==
    <<audit_vars, pass_run, adapted, emit_run, signing, codec, hsm, llm,
      container, shared, extraction,
      coverage>>

\* Fault model: cancelling the consumer cancels the audit task with it.
OnDisconnect_cancels(task) == IF task = "running" THEN "cancelled" ELSE task

\* What cancelling the event-stream generator does to the audit task:
\* nothing, the task was created detached with asyncio.create_task.
OnDisconnect(task) == task

\* Fault model: the final events are queued like any other, the emitter
\* stays open and no sentinel follows them.
EmitterEmit_no_close(q, event) ==
    IF q.closed THEN q
    ELSE [closed |-> FALSE, queue |-> Append(q.queue, event)]

\* The events an audit emits before its final event.
ProgressEvents == {"PROGRESS", "FINDING_DISCOVERED"}

\* MemoryQueueEventEmitter.emit: dropped when closed, else queued; the
\* final events close the emitter, which queues the None sentinel.
EmitterEmit(q, event) ==
    IF q.closed THEN q
    ELSE IF event \in {"AUDIT_COMPLETED", "AUDIT_FAILED"}
    THEN [closed |-> TRUE, queue |-> q.queue \o <<event, "None">>]
    ELSE [closed |-> FALSE, queue |-> Append(q.queue, event)]

\* audit_document_stream: the emitter is created, the audit task is created
\* and the StreamingResponse starts consuming emitter.stream().
CreateTask ==
    /\ sse.state = "idle"
    /\ sse' = [state |-> "streaming", task |-> "running", emitted |-> 0,
               emitter |-> [closed |-> FALSE, queue |-> <<>>],
               consumer |-> "streaming", delivered |-> <<>>, log |-> <<>>]
    /\ UNCHANGED sse_frame

\* The audit task emits a progress event.
TaskEmits ==
    /\ sse.state = "streaming"
    /\ sse.task = "running"
    /\ sse.emitted < MaxEvents
    /\ \E event \in ProgressEvents :
        sse' = [sse EXCEPT !.emitted = @ + 1,
                           !.emitter = EmitterEmit(@, event),
                           !.log = Append(@, event)]
    /\ UNCHANGED sse_frame

\* run_audit ends: AUDIT_COMPLETED and return, or AUDIT_FAILED and an
\* exception that run_audit_task swallows.
TaskEnds ==
    /\ sse.state = "streaming"
    /\ sse.task = "running"
    /\ \E outcome \in {"completed", "failed"} :
        LET event == IF outcome = "completed" THEN "AUDIT_COMPLETED"
                     ELSE "AUDIT_FAILED"
        IN  sse' = [sse EXCEPT
                       !.task = outcome,
                       !.emitter = EmitterEmit(@, event),
                       !.log = Append(@, event)]
    /\ UNCHANGED sse_frame

\* event_stream: one `await self._queue.get()` of emitter.stream(); the
\* sentinel ends the stream.
ConsumerGets ==
    /\ sse.state = "streaming"
    /\ sse.consumer = "streaming"
    /\ sse.emitter.queue # <<>>
    /\ sse' = [sse EXCEPT
                  !.emitter.queue = Tail(@),
                  !.consumer = IF Head(sse.emitter.queue) = "None"
                               THEN "finished" ELSE @,
                  !.delivered = IF Head(sse.emitter.queue) = "None"
                                THEN @ ELSE Append(@, Head(sse.emitter.queue))]
    /\ UNCHANGED sse_frame

\* The client disconnects: CancelledError is thrown into event_stream, which
\* swallows it.
ClientDisconnects ==
    /\ sse.state = "streaming"
    /\ sse.consumer = "streaming"
    /\ sse' = [sse EXCEPT !.consumer = "cancelled",
                          !.task = OnDisconnect(@)]
    /\ UNCHANGED sse_frame

InitSse == AuditIdle /\ ComponentsIdle

NextSse ==
    \/ CreateTask
    \/ TaskEmits
    \/ TaskEnds
    \/ ConsumerGets
    \/ ClientDisconnects

\* The event loop keeps running the audit task while it is runnable.
SpecSse ==
    /\ InitSse
    /\ [][NextSse]_vars
    /\ WF_vars(TaskEmits)
    /\ WF_vars(TaskEnds)

\* C18: once the SSE client has disconnected, the audit task is not
\* cancelled and run_audit runs to completion.
C18_DisconnectDoesNotCancelAudit ==
    (sse.state = "streaming" /\ sse.consumer = "cancelled")
        ~> (sse.state = "streaming" /\ sse.task \in {"completed", "failed"})

C18_Witness ==
    /\ sse.state = "streaming"
    /\ sse.consumer = "cancelled"
    /\ sse.delivered = <<"PROGRESS">>
    /\ sse.task = "completed"
    /\ sse.emitter.queue # <<>>

(***************************************************************************)
(* Signer: the PAdES lifecycle operations and POST /sign-archival          *)
(***************************************************************************)

\* What the signer leaves alone.
signing_frame ==
    <<audit_vars, pass_run, adapted, emit_run, sse, codec, hsm, llm,
      container, shared, extraction,
      coverage>>

\* A PDF artifact: the revisions appended to the rendered file, in order,
\* and the DocMDP permission of its certification signature.
Artifact(revisions, docmdp) == [revisions |-> revisions, docmdp |-> docmdp]

Rendered == Artifact(<<>>, "none")

\* Fault model: Rev 1 always certifies with NO_CHANGES.
docmdp_permissions_nochanges(enable_lta_updates) == "NO_CHANGES"

\* MDPPerm chosen by Rev 1 from settings.enable_lta_updates.
docmdp_permissions(enable_lta_updates) ==
    IF enable_lta_updates THEN "ANNOTATE" ELSE "NO_CHANGES"

\* The artifacts of the lifecycle: rendered, baseline-signed (under either
\* setting), LT-signed and LTA-signed.
LifecycleArtifacts ==
    {Rendered}
    \cup {Artifact(<<"Rev1">>, docmdp_permissions(e)) : e \in BOOLEAN}
    \cup {Artifact(<<"Rev1", "Rev2">>, "ANNOTATE"),
          Artifact(<<"Rev1", "Rev2", "Rev3">>, "ANNOTATE")}

\* The signature field of that name holds a signature.
FieldFilled(pdf, field_name) ==
    \E i \in 1..Len(pdf.revisions) :
        \/ field_name = "ArchiveSignature" /\ pdf.revisions[i] = "Rev1"
        \/ field_name = "DocumentTimeStamp" /\ pdf.revisions[i] = "Rev3"

\* reader.embedded_signatures: signatures and document timestamps.
embedded_signatures(pdf) ==
    SelectSeq(pdf.revisions, LAMBDA r : r \in {"Rev1", "Rev3"})

Raised(error) == [ok |-> FALSE, error |-> error]

\* What an operation depends on outside the artifact, each of which may
\* fail: the Azure signing service, the trust directory, the revocation
\* data (hard-fail) and the RFC 3161 timestamp authority.
ExternalFailures(op) ==
    CASE op = "Rev1" -> {"azure", "trust_roots", "revocation"}
      [] op = "Rev2" -> {"trust_roots", "revocation"}
      [] op = "Rev3" -> {"trust_roots", "revocation", "timestamp_authority"}

Written(pdf) == [ok |-> TRUE, pdf |-> pdf]

\* Rev 1: certification signature in the field "ArchiveSignature"; signing
\* a field that is already filled raises.
sign_pdf_with_certification_signature(pdf, enable_lta_updates) ==
    IF FieldFilled(pdf, "ArchiveSignature")
    THEN Raised("SigningError")
    ELSE Written(Artifact(Append(pdf.revisions, "Rev1"),
                          docmdp_permissions(enable_lta_updates)))

\* Fault model: Rev 2 only requires that some signature is present.
add_dss_for_certification_signature_anysig(pdf) ==
    IF Len(embedded_signatures(pdf)) < 1
    THEN Raised("RuntimeError")
    ELSE Written(Artifact(Append(pdf.revisions, "Rev2"), pdf.docmdp))

\* Rev 2: DSS and VRI for the one embedded signature.
add_dss_for_certification_signature(pdf) ==
    IF Len(embedded_signatures(pdf)) # 1
    THEN Raised("RuntimeError")
    ELSE Written(Artifact(Append(pdf.revisions, "Rev2"), pdf.docmdp))

\* Rev 3: document timestamp in the field "DocumentTimeStamp".
add_document_timestamp_final(pdf) ==
    IF FieldFilled(pdf, "DocumentTimeStamp")
    THEN Raised("SigningError")
    ELSE Written(Artifact(Append(pdf.revisions, "Rev3"), pdf.docmdp))

\* One write operation of the signer, by name.
WriteOperation(op, pdf, enable_lta_updates) ==
    CASE op = "Rev1" ->
            sign_pdf_with_certification_signature(pdf, enable_lta_updates)
      [] op = "Rev2" -> add_dss_for_certification_signature(pdf)
      [] op = "Rev3" -> add_document_timestamp_final(pdf)

\* sign_archival_pdf: the three revisions, whatever the setting.
sign_archival_pdf(input_pdf, enable_lta_updates) ==
    LET r1 == sign_pdf_with_certification_signature(input_pdf,
                                                    enable_lta_updates)
        r2 == IF r1.ok THEN add_dss_for_certification_signature(r1.pdf)
              ELSE r1
    IN  IF r2.ok THEN add_document_timestamp_final(r2.pdf) ELSE r2

\* The uploads of a request: the guardrails they meet, and the artifact.
Uploads ==
    [check : {"ok"}, pdf : LifecycleArtifacts]
    \cup [check : {"media_type", "empty", "too_large"}, pdf : {Rendered}]

\* Fault model: the route never stops at the baseline.
StopAtBaseline_never(enable_lta_updates) == FALSE

\* `if not settings.enable_lta_updates` after Rev 1.
StopAtBaseline(enable_lta_updates) == ~enable_lta_updates

\* sign_archival up to the first revision: guardrails and bounded read.
SignArchivalStart ==
    /\ signing.state = "idle"
    /\ \E upload \in Uploads, enable \in BOOLEAN :
        signing' =
            [state |-> "request", enable_lta_updates |-> enable,
             input |-> upload.pdf, pdf |-> upload.pdf, applied |-> <<>>,
             pc |-> IF upload.check = "ok" THEN "rev1" ELSE "rejected",
             status |-> CASE upload.check = "ok" -> 0
                          [] upload.check = "media_type" -> 415
                          [] upload.check = "empty" -> 422
                          [] upload.check = "too_large" -> 413,
             standard |-> "none", error_type |-> "none"]
    /\ UNCHANGED signing_frame

\* One revision of the request: the operation, or a failure of what it
\* depends on (Azure, trust roots, revocation data, the timestamp
\* authority); any exception becomes a 500.
SignArchivalStep ==
    /\ signing.state = "request"
    /\ signing.pc \in {"rev1", "rev2", "rev3"}
    /\ LET op == CASE signing.pc = "rev1" -> "Rev1"
                    [] signing.pc = "rev2" -> "Rev2"
                    [] signing.pc = "rev3" -> "Rev3"
       IN  \E external \in {"ok"} \cup ExternalFailures(op) :
        LET r == IF external = "ok"
                 THEN WriteOperation(op, signing.pdf,
                                     signing.enable_lta_updates)
                 ELSE Raised(external)
        IN  IF ~r.ok
            THEN signing' = [signing EXCEPT !.pc = "failed", !.status = 500,
                                            !.error_type = r.error]
            ELSE signing' =
                [signing EXCEPT
                    !.pdf = r.pdf,
                    !.applied = Append(@, op),
                    !.pc = CASE op = "Rev1" ->
                                   IF StopAtBaseline(signing.enable_lta_updates)
                                   THEN "returned" ELSE "rev2"
                             [] op = "Rev2" -> "rev3"
                             [] op = "Rev3" -> "returned",
                    !.status = CASE op = "Rev1" ->
                                   IF StopAtBaseline(signing.enable_lta_updates)
                                   THEN 200 ELSE 0
                                 [] op = "Rev2" -> 0
                                 [] op = "Rev3" -> 200,
                    !.standard = CASE op = "Rev1" ->
                                   IF StopAtBaseline(signing.enable_lta_updates)
                                   THEN "PAdES-B" ELSE "none"
                                 [] op = "Rev2" -> "none"
                                 [] op = "Rev3" -> "PAdES-B-LTA"]
    /\ UNCHANGED signing_frame

\* One write operation applied to an artifact of the lifecycle.
ApplyWriteOperation ==
    /\ signing.state = "idle"
    /\ \E op \in {"Rev1", "Rev2", "Rev3"}, pdf \in LifecycleArtifacts,
          enable \in BOOLEAN :
        \E external \in {"ok"} \cup ExternalFailures(op) :
            signing' = [state |-> "operation", op |-> op, input |-> pdf,
                        enable_lta_updates |-> enable,
                        result |-> IF external = "ok"
                                   THEN WriteOperation(op, pdf, enable)
                                   ELSE Raised(external)]
    /\ UNCHANGED signing_frame

InitSigner == AuditIdle /\ ComponentsIdle

NextSigner ==
    \/ SignArchivalStart
    \/ SignArchivalStep
    \/ ApplyWriteOperation

SpecSigner == InitSigner /\ [][NextSigner]_vars

IsPrefix(s, t) == Len(s) <= Len(t) /\ \A i \in 1..Len(s) : s[i] = t[i]

LtaSigned(pdf) ==
    FieldFilled(pdf, "ArchiveSignature") /\ FieldFilled(pdf, "DocumentTimeStamp")

MDPPermValue(perm) ==
    CASE perm = "NO_CHANGES" -> 1
      [] perm = "FILL_FORMS" -> 2
      [] perm = "ANNOTATE" -> 3

\* Rev 1 has just written its certification signature: as the first step
\* of a request, or called on its own.
CertifiedNow ==
    \/ signing.state = "request" /\ signing.applied # <<>>
    \/ signing.state = "operation" /\ signing.op = "Rev1" /\ signing.result.ok

CertifiedPermission ==
    IF signing.state = "request" THEN signing.pdf.docmdp
    ELSE signing.result.pdf.docmdp

codec_frame ==
    <<audit_vars, pass_run, adapted, emit_run, sse, signing, hsm, llm,
      container, shared, extraction,
      coverage>>

\* Python values as model_dump() hands them to json.dumps. A float is held
\* by its repr; a dict is its key/value pairs in insertion order.
PyNone == [t |-> "None"]

PyBool(v) == [t |-> "bool", b |-> v]

PyInt(v) == [t |-> "int", i |-> v]

PyFloat(v) == [t |-> "float", s |-> v]

PyDecimal(v) == [t |-> "Decimal", s |-> v]

PyStr(v) == [t |-> "str", s |-> v]

PyDate(v) == [t |-> "date", s |-> v]

PyList(v) == [t |-> "list", items |-> v]

PyDict(v) == [t |-> "dict", members |-> v]

\* Object keys (field names), and their rank in code-point order.
Keys == {"author", "subject"}

KeyRank(k) == CASE k = "author" -> 1 [] k = "subject" -> 2

\* The bytes of a JSON text, one token at a time.
Punct(s) == [k |-> "punct", s |-> s]

Literal(s) == [k |-> "literal", s |-> s]

Number(s) == [k |-> "number", s |-> s]

String(s) == [k |-> "string", s |-> s]

\* repr of an int.
IntRepr(v) == CASE v = 0 -> "0" [] v = 1 -> "1"

IntLiterals == {"0", "1"}

\* int(): the value of an integer literal.
IntValue(s) == CASE s = "0" -> 0 [] s = "1" -> 1

\* repr(float(s)): the shortest literal that reads back as the same float.
FloatRepr(s) == CASE s = "1.50" -> "1.5" [] OTHER -> s

\* Fault model: Decimal values are written as JSON numbers.
_canonical_json_default_number(obj) ==
    IF obj.t = "Decimal" THEN [ok |-> TRUE, tokens |-> <<Number(obj.s)>>]
    ELSE [ok |-> FALSE, tokens |-> <<>>]

\* _canonical_json_default: Decimal as the string str(obj), TypeError for
\* any other type json does not know.
_canonical_json_default(obj) ==
    IF obj.t = "Decimal" THEN [ok |-> TRUE, tokens |-> <<String(obj.s)>>]
    ELSE [ok |-> FALSE, tokens |-> <<>>]

\* Fault model: object members are written in insertion order.
SortItems_insertion_order(pairs) == pairs

\* sort_keys=True: the members of an object sorted by key.
RECURSIVE SortItems(_)
SortItems(pairs) ==
    IF pairs = <<>> THEN <<>>
    ELSE LET rest == SortItems(Tail(pairs))
             low  == SelectSeq(rest, LAMBDA q :
                         KeyRank(q[1]) < KeyRank(Head(pairs)[1]))
             high == SelectSeq(rest, LAMBDA q :
                         KeyRank(q[1]) >= KeyRank(Head(pairs)[1]))
         IN  low \o <<Head(pairs)>> \o high

\* json.dumps(obj, sort_keys=True, ensure_ascii=False, separators=(",",":")),
\* with default=_canonical_json_default when use_default holds. The result
\* says whether the call returned, and the text.
RECURSIVE json_dumps(_, _)
RECURSIVE DumpElements(_, _)
RECURSIVE DumpMembers(_, _)
json_dumps(obj, use_default) ==
    CASE obj.t = "None" -> [ok |-> TRUE, tokens |-> <<Literal("null")>>]
      [] obj.t = "bool" ->
            [ok |-> TRUE,
             tokens |-> <<Literal(IF obj.b THEN "true" ELSE "false")>>]
      [] obj.t = "int" -> [ok |-> TRUE, tokens |-> <<Number(IntRepr(obj.i))>>]
      [] obj.t = "float" -> [ok |-> TRUE, tokens |-> <<Number(obj.s)>>]
      [] obj.t = "str" -> [ok |-> TRUE, tokens |-> <<String(obj.s)>>]
      [] obj.t = "list" ->
            LET r == DumpElements(obj.items, use_default)
            IN  [ok |-> r.ok,
                 tokens |-> <<Punct("[")>> \o r.tokens \o <<Punct("]")>>]
      [] obj.t = "dict" ->
            LET r == DumpMembers(SortItems(obj.members), use_default)
            IN  [ok |-> r.ok,
                 tokens |-> <<Punct("{")>> \o r.tokens \o <<Punct("}")>>]
      [] OTHER ->
            IF use_default THEN _canonical_json_default(obj)
            ELSE [ok |-> FALSE, tokens |-> <<>>]

DumpElements(elements, use_default) ==
    IF elements = <<>> THEN [ok |-> TRUE, tokens |-> <<>>]
    ELSE LET first == json_dumps(Head(elements), use_default)
             rest  == DumpElements(Tail(elements), use_default)
         IN  [ok |-> first.ok /\ rest.ok,
              tokens |-> first.tokens
                         \o (IF Tail(elements) = <<>> THEN <<>>
                             ELSE <<Punct(",")>>)
                         \o rest.tokens]

DumpMembers(pairs, use_default) ==
    IF pairs = <<>> THEN [ok |-> TRUE, tokens |-> <<>>]
    ELSE LET first == json_dumps(Head(pairs)[2], use_default)
             rest  == DumpMembers(Tail(pairs), use_default)
         IN  [ok |-> first.ok /\ rest.ok,
              tokens |-> <<String(Head(pairs)[1]), Punct(":")>>
                         \o first.tokens
                         \o (IF Tail(pairs) = <<>> THEN <<>>
                             ELSE <<Punct(",")>>)
                         \o rest.tokens]

\* dict[key] = value while parsing: a repeated key keeps its place and
\* takes the later value.
SetItem(pairs, key, value) ==
    IF \E i \in 1..Len(pairs) : pairs[i][1] = key
    THEN [i \in 1..Len(pairs) |->
            IF pairs[i][1] = key THEN <<key, value>> ELSE pairs[i]]
    ELSE Append(pairs, <<key, value>>)

\* json.loads on a well-formed text: the value that starts at token i and
\* the index of the token after it.
RECURSIVE ParseValue(_, _)
RECURSIVE ParseElements(_, _, _)
RECURSIVE ParseMembers(_, _, _)
ParseValue(tokens, i) ==
    LET tok == tokens[i]
    IN  CASE tok.k = "literal" ->
                [v |-> CASE tok.s = "null" -> PyNone
                         [] tok.s = "true" -> PyBool(TRUE)
                         [] tok.s = "false" -> PyBool(FALSE),
                 n |-> i + 1]
          [] tok.k = "number" ->
                [v |-> IF tok.s \in IntLiterals THEN PyInt(IntValue(tok.s))
                       ELSE PyFloat(FloatRepr(tok.s)),
                 n |-> i + 1]
          [] tok.k = "string" -> [v |-> PyStr(tok.s), n |-> i + 1]
          [] tok = Punct("[") ->
                IF tokens[i + 1] = Punct("]")
                THEN [v |-> PyList(<<>>), n |-> i + 2]
                ELSE ParseElements(tokens, i + 1, <<>>)
          [] tok = Punct("{") ->
                IF tokens[i + 1] = Punct("}")
                THEN [v |-> PyDict(<<>>), n |-> i + 2]
                ELSE ParseMembers(tokens, i + 1, <<>>)

ParseElements(tokens, i, acc) ==
    LET r == ParseValue(tokens, i)
    IN  IF tokens[r.n] = Punct(",")
        THEN ParseElements(tokens, r.n + 1, Append(acc, r.v))
        ELSE [v |-> PyList(Append(acc, r.v)), n |-> r.n + 1]

ParseMembers(tokens, i, acc) ==
    LET r == ParseValue(tokens, i + 2)
        members == SetItem(acc, tokens[i].s, r.v)
    IN  IF tokens[r.n] = Punct(",")
        THEN ParseMembers(tokens, r.n + 1, members)
        ELSE [v |-> PyDict(members), n |-> r.n + 1]

json_loads(tokens) == ParseValue(tokens, 1).v

\* The sequences of key/value pairs with distinct keys: the dicts over the
\* given values, in every insertion order.
DictsOver(values) ==
    {PyDict(pairs) :
        pairs \in {q \in UNION {[1..n -> Keys \X values] : n \in 0..2} :
                      \A i, j \in DOMAIN q : i # j => q[i][1] # q[j][1]}}

\* The values of a nested object or list.
InnerValues == {PyNone, PyInt(1), PyDecimal("1.50"), PyStr("1.50")}

\* The values of a top-level field: scalars (a date is a type json.dumps
\* does not know), lists and nested objects.
FieldValues ==
    {PyNone, PyBool(TRUE), PyInt(1), PyFloat("1.5"), PyDecimal("1.50"),
     PyStr("1.50"), PyStr("Acme"), PyDate("2026-02-26")}
    \cup {PyList(<<>>)} \cup {PyList(<<x>>) : x \in InnerValues}
    \cup DictsOver(InnerValues)

\* validated_payload.model_dump(): the Document Contents of the model.
DocumentContents == DictsOver(FieldValues)

\* _canonicalize_document_content: the canonical bytes, or TypeError.
_canonicalize_document_content(content) == json_dumps(content, TRUE)

\* _canonicalize_content_payload: the canonical bytes, or None on failure.
_canonicalize_content_payload(content) ==
    LET r == json_dumps(content, FALSE)
    IN  IF r.ok THEN r.tokens ELSE <<[k |-> "None", s |-> "None"]>>

\* hashlib.sha256(data).hexdigest(), taken as collision-free.
_compute_sha256(data) == [sha256 |-> data]

\* compute_document_hash: "SHA-256:" followed by the hex digest.
compute_document_hash(canonical_bytes) ==
    [prefix |-> "SHA-256", hex |-> _compute_sha256(canonical_bytes)]

\* A hex digest written with the digits A-F, and str.lower() of a digest.
UpperHex(digest) == [sha256 |-> digest.sha256, upper |-> TRUE]

LowerHex(digest) == [sha256 |-> digest.sha256]

\* Fault model: the digest is compared as it was written.
_parse_content_hash_keepcase(value) ==
    LET algo == IF value.prefix = "" THEN "SHA-256" ELSE value.prefix
    IN  IF algo # "SHA-256" THEN [ok |-> FALSE]
        ELSE [ok |-> TRUE, algo |-> algo, digest |-> value.hex]

\* _parse_content_hash: the text before the first ":" names the algorithm
\* (SHA-256 when there is none), the rest is the digest in lower case; None
\* unless the algorithm is SHA-256.
_parse_content_hash(value) ==
    LET algo == IF value.prefix = "" THEN "SHA-256" ELSE value.prefix
    IN  IF algo # "SHA-256" THEN [ok |-> FALSE]
        ELSE [ok |-> TRUE, algo |-> algo, digest |-> LowerHex(value.hex)]

\* The value bindings.get("content_hash") returns when the key is absent.
NoContentHash == [prefix |-> "None", hex |-> _compute_sha256(<<>>)]

\* run_cryptographic_binding_checks from the declared hash on, with
\* document_content and bindings both present: the ids of the findings.
CompareContentHash(document_content, bindings) ==
    IF bindings.content_hash = NoContentHash THEN <<"AIA-CRIT-032">>
    ELSE LET parsed == _parse_content_hash(bindings.content_hash)
             canonical == _canonicalize_content_payload(document_content)
         IN  IF ~parsed.ok THEN <<"AIA-CRIT-035">>
             ELSE IF canonical = <<[k |-> "None", s |-> "None"]>>
             THEN <<"AIA-CRIT-033">>
             ELSE IF parsed.digest # _compute_sha256(canonical)
             THEN <<"AIA-CRIT-034">>
             ELSE <<>>

\* generate_document up to the files it embeds: content.json holds the
\* canonical bytes, bindings.json the declared hash. A content that cannot
\* be serialized ends the request with the TypeError.
Generate ==
    /\ codec.state = "idle"
    /\ \E content \in DocumentContents, mode \in {"draft", "final"} :
        LET canonical == _canonicalize_document_content(content)
        IN  codec' =
                IF ~canonical.ok
                THEN [state |-> "rejected", content |-> content]
                ELSE [state |-> "generated", content |-> content,
                      content_json |-> canonical.tokens,
                      bindings |->
                          [content_hash |->
                               compute_document_hash(canonical.tokens),
                           hash_algorithm |-> "SHA-256",
                           generation_mode |-> mode],
                      modified |-> FALSE]
    /\ UNCHANGED codec_frame

\* Someone replaces the embedded content.json, or the declared hash.
Modify ==
    /\ codec.state = "generated"
    /\ ~codec.modified
    /\ \/ \E other \in {PyDict(<<>>),
                        PyDict(<<<<"author", PyStr("Mallory")>>>>)} :
            /\ json_dumps(other, FALSE).tokens # codec.content_json
            /\ codec' = [codec EXCEPT
                            !.content_json = json_dumps(other, FALSE).tokens,
                            !.modified = TRUE]
       \/ \E h \in {NoContentHash,
                     [prefix |-> "MD5", hex |-> codec.bindings.content_hash.hex],
                     [prefix |-> "", hex |-> codec.bindings.content_hash.hex],
                     [prefix |-> "SHA-256",
                      hex |-> UpperHex(codec.bindings.content_hash.hex)],
                     [prefix |-> "SHA-256",
                      hex |-> _compute_sha256(<<Literal("null")>>)]} :
            codec' = [codec EXCEPT !.bindings.content_hash = h,
                                   !.modified = TRUE]
    /\ UNCHANGED codec_frame

\* The auditor extracts content.json and bindings.json (json.loads) and
\* runs the cryptographic binding check.
AuditBinding ==
    /\ codec.state = "generated"
    /\ LET document_content == json_loads(codec.content_json)
       IN  codec' =
               [state |-> "audited", content |-> codec.content,
                content_json |-> codec.content_json,
                bindings |-> codec.bindings, modified |-> codec.modified,
                document_content |-> document_content,
                findings |-> CompareContentHash(document_content,
                                                codec.bindings)]
    /\ UNCHANGED codec_frame

\* The same object with its members in another order, at every level.
RECURSIVE Variants(_)
Variants(obj) ==
    CASE obj.t = "dict" ->
            LET n == Len(obj.members)
                perms == {p \in [1..n -> 1..n] :
                             \A i, j \in 1..n : i # j => p[i] # p[j]}
                inner == UNION {Variants(obj.members[i][2]) : i \in 1..n}
            IN  IF n = 0 THEN {obj}
                ELSE UNION {{PyDict([i \in 1..n |->
                                        <<obj.members[p[i]][1], f[i]>>]) :
                                f \in {g \in [1..n -> inner] :
                                          \A i \in 1..n :
                                              g[i] \in
                                                Variants(obj.members[p[i]][2])}} :
                            p \in perms}
      [] obj.t = "list" ->
            LET n == Len(obj.items)
                inner == UNION {Variants(obj.items[i]) : i \in 1..n}
            IN  IF n = 0 THEN {obj}
                ELSE {PyList(f) :
                        f \in {g \in [1..n -> inner] :
                                  \A i \in 1..n : g[i] \in Variants(obj.items[i])}}
      [] OTHER -> {obj}

\* Both canonicalizers applied to an object and to a reordering of it.
Canonicalize ==
    /\ codec.state = "idle"
    /\ \E content \in DocumentContents :
        \E permuted \in Variants(content) :
            codec' =
                [state |-> "canonicalized", content |-> content,
                 permuted |-> permuted,
                 generator |-> <<_canonicalize_document_content(content),
                                 _canonicalize_document_content(permuted)>>,
                 auditor |-> <<_canonicalize_content_payload(content),
                               _canonicalize_content_payload(permuted)>>]
    /\ UNCHANGED codec_frame

InitCodec == AuditIdle /\ ComponentsIdle

NextCodec ==
    \/ Generate
    \/ Modify
    \/ AuditBinding
    \/ Canonicalize

SpecCodec == InitCodec /\ [][NextCodec]_vars

\* C22: for every Document Content the generator accepts, the auditor's
\* digest of the embedded content.json equals the content_hash declared in
\* bindings.json ("SHA-256:" and the hex digest), and the binding check of
\* the unmodified artifact has no finding, AIA-CRIT-034 in particular.
C22_DeclaredHashMatches ==
    codec.state = "audited" /\ ~codec.modified =>
        /\ codec.bindings.content_hash =
               [prefix |-> "SHA-256",
                hex |-> _compute_sha256(
                            _canonicalize_content_payload(
                                codec.document_content))]
        /\ codec.findings = <<>>

C22_Witness ==
    /\ codec.state = "audited"
    /\ ~codec.modified
    /\ codec.content =
           PyDict(<<<<"subject", PyDecimal("1.50")>>,
                    <<"author", PyDict(<<<<"subject", PyInt(1)>>,
                                         <<"author", PyNone>>>>)>>>>)
    /\ codec.findings = <<>>

\* C23: both canonicalizers give the same bytes for an object and for any
\* reordering of its keys, at every nesting level.
C23_KeyOrderInvariance ==
    codec.state = "canonicalized" =>
        /\ codec.generator[1] = codec.generator[2]
        /\ codec.auditor[1] = codec.auditor[2]

C23_Witness ==
    /\ codec.state = "canonicalized"
    /\ codec.content =
           PyDict(<<<<"subject", PyStr("Acme")>>,
                    <<"author", PyDict(<<<<"subject", PyInt(1)>>,
                                         <<"author", PyNone>>>>)>>>>)
    /\ codec.permuted =
           PyDict(<<<<"author", PyDict(<<<<"author", PyNone>>,
                                         <<"subject", PyInt(1)>>>>)>>,
                    <<"subject", PyStr("Acme")>>>>)
    /\ codec.generator[1].ok

(***************************************************************************)
(* Azure Artifact Signing client (signer/app/services/azure_api.py)        *)
(***************************************************************************)

\* What the signing client leaves alone.
hsm_frame ==
    <<audit_vars, pass_run, adapted, emit_run, sse, signing, codec, llm,
      container, shared, extraction,
      coverage>>

\* Longest time, in seconds, one poll request takes in the model.
MaxPollSeconds == 1

\* stop_after_delay(60): seconds since the first poll attempt started.
StopAfterDelay == 60

\* wait_exponential(min=1, max=10).
WaitMin == 1

WaitMax == 10

Max(a, b) == IF a >= b THEN a ELSE b

Min(a, b) == IF a <= b THEN a ELSE b

\* Fault model: the backoff is not capped.
wait_exponential_uncapped(attempt_number) ==
    Max(WaitMin, 2 ^ (attempt_number - 1))

\* tenacity's wait_exponential (multiplier 1, base 2) before the next
\* attempt: 1, 2, 4, 8, 10, 10, ...
wait_exponential(attempt_number) ==
    Max(WaitMin, Min(2 ^ (attempt_number - 1), WaitMax))

\* _ALGO_TO_DIGEST_LEN; 0 stands for an algorithm that is not in the table.
_ALGO_TO_DIGEST_LEN(algorithm) ==
    CASE algorithm = "RS256" -> 32
      [] algorithm = "RS384" -> 48
      [] algorithm = "RS512" -> 64
      [] OTHER -> 0

\* _validate_digest: TRUE when it returns, FALSE when it raises ValueError.
_validate_digest(digest_len, algorithm) ==
    /\ _ALGO_TO_DIGEST_LEN(algorithm) # 0
    /\ digest_len = _ALGO_TO_DIGEST_LEN(algorithm)

\* Fault model: the retry decorator retries on every exception of a poll.
Retried_any ==
    {"TransportError", "HsmPending", "RuntimeError", "HTTPStatusError"}

\* The exceptions the retry decorator of _poll retries on.
Retried == {"TransportError", "HsmPending"}

\* sign_digest is called and validates its arguments.
SignDigest ==
    /\ hsm.pc = "idle"
    /\ \E digest_len \in {32, 48}, algorithm \in {"RS256", "RS384", "ES256"} :
        hsm' = IF _validate_digest(digest_len, algorithm)
               THEN [pc |-> "submit", algorithm |-> algorithm]
               ELSE [pc |-> "failed", error |-> "ValueError", polls |-> 0,
                     elapsed |-> 0, checked |-> 0, waits |-> <<>>,
                     statuses |-> {}]
    /\ UNCHANGED hsm_frame

\* _submit: one POST, not retried; any exception leaves sign_digest.
Submit ==
    /\ hsm.pc = "submit"
    /\ \E outcome \in {"accepted", "TransportError", "HTTPStatusError",
                       "ClientAuthenticationError", "RuntimeError"} :
        hsm' = IF outcome = "accepted"
               THEN [pc |-> "poll", attempt_number |-> 1, polls |-> 0,
                     elapsed |-> 0, checked |-> 0, waits |-> <<>>,
                     statuses |-> {}]
               ELSE [pc |-> "failed", error |-> outcome, polls |-> 0,
                     elapsed |-> 0, checked |-> 0, waits |-> <<>>,
                     statuses |-> {}]
    /\ UNCHANGED hsm_frame

\* One attempt of _poll and the decision of the retry decorator after it:
\* return, re-raise (an exception it does not retry, or the delay reached),
\* or wait. The decoding of the result by sign_digest follows a success.
Poll ==
    /\ hsm.pc = "poll"
    /\ \E seconds \in 0..MaxPollSeconds,
          status \in {"succeeded", "succeeded_incomplete",
                      "succeeded_bad_base64", "failed", "running",
                      "inprogress", "notstarted", "TransportError",
                      "HTTPStatusError"} :
        LET elapsed == hsm.elapsed + seconds
            raised ==
                CASE status = "succeeded" -> "none"
                  [] status \in {"succeeded_incomplete", "failed",
                                 "succeeded_bad_base64"} -> "RuntimeError"
                  [] status \in {"TransportError", "HTTPStatusError"} -> status
                  [] OTHER -> "HsmPending"
            seen == [hsm EXCEPT !.polls = @ + 1, !.elapsed = elapsed,
                                !.statuses = @ \cup {status}]
        IN  hsm' =
                IF raised = "none"
                THEN [pc |-> "done", polls |-> seen.polls,
                      elapsed |-> elapsed, checked |-> hsm.checked,
                      waits |-> hsm.waits, statuses |-> seen.statuses]
                ELSE IF raised \notin Retried
                THEN [pc |-> "failed", error |-> raised, polls |-> seen.polls,
                      elapsed |-> elapsed, checked |-> hsm.checked,
                      waits |-> hsm.waits, statuses |-> seen.statuses]
                ELSE IF elapsed >= StopAfterDelay
                THEN [pc |-> "failed", error |-> raised, polls |-> seen.polls,
                      elapsed |-> elapsed, checked |-> elapsed,
                      waits |-> hsm.waits, statuses |-> seen.statuses]
                ELSE [seen EXCEPT
                         !.pc = "sleep",
                         !.checked = elapsed,
                         !.waits = Append(@, wait_exponential(
                                                 hsm.attempt_number))]
    /\ UNCHANGED hsm_frame

\* The wait before the next attempt.
Sleep ==
    /\ hsm.pc = "sleep"
    /\ hsm' = [hsm EXCEPT !.pc = "poll",
                          !.elapsed = @ + hsm.waits[Len(hsm.waits)],
                          !.attempt_number = @ + 1]
    /\ UNCHANGED hsm_frame

InitHsm == AuditIdle /\ ComponentsIdle

NextHsm ==
    \/ SignDigest
    \/ Submit
    \/ Poll
    \/ Sleep

\* A poll request ends (its own timeout bounds it) and a wait ends.
SpecHsm ==
    /\ InitHsm
    /\ [][NextHsm]_vars
    /\ WF_vars(Poll)
    /\ WF_vars(Sleep)

Polling == hsm.pc \in {"poll", "sleep"}

Pending == {"running", "inprogress", "notstarted"}

\* C24: while the operation stays non-terminal the waits between polls
\* double from 1 s and never exceed 10 s, a poll is made only while the
\* budget of 60 s was not used up at the last check, and polling ends:
\* sign_digest fails with the pending status as its failure once a poll
\* ends 60 s or more after the first began.
C24_PollingBudget ==
    /\ [](Polling =>
            /\ hsm.checked < StopAfterDelay
            /\ \A i \in 1..Len(hsm.waits) :
                /\ hsm.waits[i] <= WaitMax
                /\ hsm.waits[i] =
                       (IF i = 1 THEN WaitMin
                        ELSE Min(2 * hsm.waits[i - 1], WaitMax)))
    /\ [](hsm.pc \in {"failed", "done"} /\ hsm.polls > 0
              /\ hsm.statuses \subseteq Pending
            => /\ hsm.pc = "failed"
               /\ hsm.error = "HsmPending"
               /\ hsm.elapsed >= StopAfterDelay)
    /\ (Polling ~> hsm.pc \in {"failed", "done"})

C24_Witness ==
    /\ hsm.pc = "failed"
    /\ hsm.error = "HsmPending"
    /\ hsm.statuses = {"running"}
    /\ hsm.waits = <<1, 2, 4, 8, 10, 10, 10, 10, 10>>
    /\ hsm.elapsed = 65

\* C25: a transport failure, at submit or at a poll, does not fail the
\* operation at once: sign_digest fails with it only when the retry budget
\* is used up.
C25_TransientFailureRetried ==
    hsm.pc = "failed" /\ hsm.error = "TransportError"
        => hsm.polls > 0 /\ hsm.elapsed >= StopAfterDelay

(***************************************************************************)
(* Prompt assembly (auditor/app/semantic_audit/llm_executor.py)            *)
(***************************************************************************)

\* What the executor leaves alone.
llm_frame ==
    <<audit_vars, pass_run, adapted, emit_run, sse, signing, codec, hsm,
      container, shared, extraction,
      coverage>>

\* The Document Contents and derived texts a run is given.
SnapshotPayloads == DictsOver({PyStr("Acme")})

SnapshotTexts == {"Acme", "Acme 1"}

\* The text a pass sends as its focus: a slice or a chunk of the derived
\* text, nothing, or (Pass 8) the findings so far.
FocusTexts(pass_id, context) ==
    CASE pass_id = "P1" -> {context.content_derived_text}
      [] pass_id \in ChunkedPasses -> {"", "chunk 1", "chunk 2"}
      [] pass_id = "P8" -> {"prior_findings"}
      [] OTHER -> {"", context.content_derived_text}

\* json.dumps(payload, ensure_ascii=False, sort_keys=True,
\* separators=(",", ":")) and the snapshot text around it.
semantic_snapshot(context) ==
    [begin |-> "--- BEGIN CANONICAL SEMANTIC SNAPSHOT ---",
     payload_json |-> json_dumps(context.document_content, FALSE).tokens,
     text |-> context.content_derived_text,
     end |-> "--- END CANONICAL SEMANTIC SNAPSHOT ---"]

SystemMessage(content) == [role |-> "system", system |-> content]

SnapshotMessage(snapshot) == [role |-> "user", snapshot |-> snapshot]

UserMessage(content) == [role |-> "user", content |-> content]

\* Fault model: the chunk under analysis is sent ahead of the snapshot.
Messages_focus_first(base_system_text, context, prompt_text, input_text) ==
    <<SystemMessage(base_system_text)>>
    \o (IF input_text # "" THEN <<UserMessage(input_text)>> ELSE <<>>)
    \o <<SnapshotMessage(semantic_snapshot(context)),
         UserMessage(prompt_text)>>

\* The messages of one call: authority, snapshot, task, and the focus when
\* the pass gives one.
Messages(base_system_text, context, prompt_text, input_text) ==
    <<SystemMessage(base_system_text),
      SnapshotMessage(semantic_snapshot(context)),
      UserMessage(prompt_text)>>
    \o (IF input_text # "" THEN <<UserMessage(input_text)>> ELSE <<>>)

\* The authority layer and the data layer of a call.
Prefix(messages) == SubSeq(messages, 1, 2)

\* Calls one pass may make: one, or one per chunk.
CallsAllowed(pass_id) == IF pass_id \in ChunkedPasses THEN MaxChunks ELSE 1

\* SemanticAuditPipeline.run builds the context the passes share; the
\* executor got its system text when it was constructed.
ContextConstructed ==
    /\ llm.state = "idle"
    /\ \E document_content \in SnapshotPayloads,
          content_derived_text \in SnapshotTexts :
        llm' = [state |-> "running",
                base_system_text |-> "LDVP authority",
                context |-> [document_content |-> document_content,
                             content_derived_text |-> content_derived_text],
                pass_idx |-> 1,
                calls_in_pass |-> 0,
                callers |-> {},
                focus |-> {},
                prefixes |-> {}]
    /\ UNCHANGED llm_frame

\* execute reaches chat.completions.parse with the assembled messages.
Execute ==
    /\ llm.state = "running"
    /\ llm.pass_idx <= Len(PASS_ORDER("LDVP"))
    /\ LET pass_id == PASS_ORDER("LDVP")[llm.pass_idx]
       IN  /\ llm.calls_in_pass < CallsAllowed(pass_id)
           /\ \E input_text \in FocusTexts(pass_id, llm.context) :
                LET messages == Messages(llm.base_system_text, llm.context,
                                         pass_id, input_text)
                IN  llm' = [llm EXCEPT
                               !.calls_in_pass = @ + 1,
                               !.callers = @ \cup {pass_id},
                               !.focus = @ \cup {input_text},
                               !.prefixes = @ \cup {Prefix(messages)}]
    /\ UNCHANGED llm_frame

\* execute raises while it assembles the snapshot (the context does not
\* declare the attribute it reads): the result is a failure and no call
\* is made.
ExecuteRaises ==
    /\ llm.state = "running"
    /\ llm.pass_idx <= Len(PASS_ORDER("LDVP"))
    /\ llm.calls_in_pass < CallsAllowed(PASS_ORDER("LDVP")[llm.pass_idx])
    /\ llm' = [llm EXCEPT !.calls_in_pass = @ + 1]
    /\ UNCHANGED llm_frame

\* The pass returns and the loop moves on.
PassReturns ==
    /\ llm.state = "running"
    /\ llm.pass_idx <= Len(PASS_ORDER("LDVP"))
    /\ llm.calls_in_pass >= 1
    /\ llm' = [llm EXCEPT !.pass_idx = @ + 1, !.calls_in_pass = 0]
    /\ UNCHANGED llm_frame

\* The pipeline returns its result.
PipelineReturns ==
    /\ llm.state = "running"
    /\ llm.pass_idx > Len(PASS_ORDER("LDVP"))
    /\ llm' = [llm EXCEPT !.state = "done"]
    /\ UNCHANGED llm_frame

InitLlm == AuditIdle /\ ComponentsIdle

NextLlm ==
    \/ ContextConstructed
    \/ Execute
    \/ ExecuteRaises
    \/ PassReturns
    \/ PipelineReturns

SpecLlm == InitLlm /\ [][NextLlm]_vars

UnresolvedStvFindings(findings) ==
    {f \in SeqToSet(findings) : f.requires_stv /\ f.status # "resolved"}

\* C27: no report returned by run_audit has status=pass while its findings
\* include a requires_stv finding whose status is not resolved.
C27_NoPassWithUnresolvedStvFinding ==
    (Returned /\ report.status = "pass")
        => UnresolvedStvFindings(report.findings) = {}

C27_Witness ==
    /\ StvReturned
    /\ report.status = "pass"
    /\ report.semantic_audit.findings # <<>>
    /\ \E f \in SeqToSet(report.findings) :
          f.requires_stv /\ f.status = "resolved"
    /\ UnresolvedStvFindings(report.findings) = {}

\* C28: STV never returns trusted=true when the DocMDP diff result is
\* False, whether or not AIA-MAJ-008 was among the input findings.
C28_DocmdpFalseNeverTrusted ==
    (StvReturned /\ stv_env.docmdp_ok = "false")
        => seal_trust.trusted # "true"

(***************************************************************************)
(* Incremental-update classification (checks/artifact/container_archival)  *)
(***************************************************************************)

\* What the container check leaves alone.
container_frame ==
    <<audit_vars, pass_run, adapted, emit_run, sse, signing, codec, hsm, llm,
      shared, extraction,
      coverage>>

\* run_container_archival_checks on one artifact.
CheckContainer ==
    /\ container.state = "idle"
    /\ \E pdf \in Pdfs :
        container' = [state |-> "checked", pdf |-> pdf,
                      findings |-> run_container_archival_checks(pdf)]
    /\ UNCHANGED container_frame

\* ArtifactIntegrityAudit.run on the same artifact.
AuditArtifact ==
    /\ container.state = "checked"
    /\ container' = [state |-> "audited", pdf |-> container.pdf,
                     findings |-> container.findings,
                     result |-> ArtifactIntegrityAuditRun(container.pdf)]
    /\ UNCHANGED container_frame

InitContainer == AuditIdle /\ ComponentsIdle

NextContainer ==
    \/ CheckContainer
    \/ AuditArtifact

SpecContainer == InitContainer /\ [][NextContainer]_vars

\* A parsable PDF with one header, several %%EOF markers, a signed /Sig
\* field and bytes after the last signature's ByteRange.
UncoveredAfterSignature(pdf) ==
    /\ pdf.header = "ok"
    /\ pdf.eof_multi
    /\ pdf.parse_ok
    /\ pdf.sig = "uncovered"

C30_UnflaggedMeansCovered ==
    (container.state # "idle"
        /\ container.pdf.header = "ok"
        /\ container.pdf.eof_multi
        /\ "AIA-CRIT-002" \notin FindingIds(container.findings)
        /\ "AIA-MAJ-008" \notin FindingIds(container.findings))
        => container.pdf.sig = "covers"

(***************************************************************************)
(* Concurrent audits on one coordinator                                    *)
(* (coordinator/artifact_integrity_audit.py, semantic_audit/pipeline.py)   *)
(***************************************************************************)

\* What the audits leave alone.
shared_frame ==
    <<audit_vars, pass_run, adapted, emit_run, sse, signing, codec, hsm, llm,
      container, extraction, coverage>>

\* The audits in flight, and "no task" for the event loop.
MaxTasks == 2

Tasks == 1..MaxTasks

NoTask == 0

\* self._checks, by name.
Checks ==
    <<"_container_and_archival_compliance", "_document_content_extraction",
      "_cryptographic_binding_verification">>

\* The artifacts the audits are given.
SharedPdfs ==
    {pdf \in Pdfs :
        /\ pdf.header \in {"ok", "bad"}
        /\ ~pdf.eof_multi /\ pdf.parse_ok /\ pdf.sig = "none"
        /\ pdf.xref = "single" /\ pdf.text = "ok"
        /\ pdf.xmp \in {"ok", "missing"}
        /\ pdf.content \in {"ok", "missing"}
        /\ pdf.bindings \in {"ok", "mismatch"}
        /\ (pdf.header = "bad" =>
               pdf.xmp = "ok" /\ pdf.content = "ok" /\ pdf.bindings = "ok")}

\* A value extracted from the artifact of the audit `owner`; None has no
\* owner.
Extracted(owner, present) ==
    [owner |-> IF present THEN owner ELSE NoTask, present |-> present]

PyNoneValue == Extracted(NoTask, FALSE)

\* Fault model: the checks are awaited, so the event loop may switch tasks
\* between two checks.
YieldsBetweenChecks_awaited == TRUE

\* run is a plain function: no await between two checks.
YieldsBetweenChecks == FALSE

\* One check of self._checks called by the audit t: its findings, what it
\* extracted, and whose instance state it read.
CallCheck(t, k) ==
    LET pdf == shared.tasks[t].pdf
    IN  CASE k = 1 ->
                [findings |-> run_container_archival_checks(pdf),
                 extraction |-> FALSE, read |-> {}]
          [] k = 2 ->
                LET ex == run_content_extraction_checks(pdf)
                IN  [findings |-> ex.findings, extraction |-> TRUE,
                     document_content |-> Extracted(t, ex.document_content),
                     bindings |-> Extracted(t, ex.bindings), read |-> {}]
          [] OTHER ->
                LET dc == shared.self_document_content
                    bd == shared.self_bindings
                    from == IF dc.present THEN shared.tasks[dc.owner].pdf
                            ELSE pdf
                IN  [findings |->
                        run_cryptographic_binding_checks(dc.present,
                                                         bd.present, from),
                     extraction |-> FALSE,
                     read |-> {dc.owner, bd.owner}]

\* Requests arrive: one audit per task on the shared coordinator.
RequestsArrive ==
    /\ shared.state = "idle"
    /\ \E pdfs \in [Tasks -> SharedPdfs] :
        shared' = [state |-> "serving",
                   running |-> NoTask,
                   self_document_content |-> PyNoneValue,
                   self_bindings |-> PyNoneValue,
                   tasks |-> [t \in Tasks |->
                                [pc |-> "start", pdf |-> pdfs[t]]]]
    /\ UNCHANGED shared_frame

\* run_audit reaches ArtifactIntegrityAudit.run: locals are initialized and
\* the request-scoped instance state is reset.
StartRun(t) ==
    /\ shared.state = "serving"
    /\ shared.running = NoTask
    /\ shared.tasks[t].pc = "start"
    /\ shared' = [shared EXCEPT
                    !.running = t,
                    !.self_document_content = PyNoneValue,
                    !.self_bindings = PyNoneValue,
                    !.tasks[t] = [pc |-> "aia", pdf |-> @.pdf, k |-> 1,
                                  calls |-> <<>>, findings |-> <<>>,
                                  document_content |-> PyNoneValue,
                                  bindings |-> PyNoneValue,
                                  read |-> {}, passed |-> FALSE,
                                  ctx_findings |-> <<>>]]
    /\ UNCHANGED shared_frame

\* One iteration of `for check in self._checks`, and what follows the loop
\* when it was the last.
CheckStep(t) ==
    /\ shared.state = "serving"
    /\ shared.running \in {t, NoTask}
    /\ shared.tasks[t].pc = "aia"
    /\ LET task == shared.tasks[t]
           r == CallCheck(t, task.k)
           fatal == _has_fatal_findings(r.findings)
           last == task.k = Len(Checks)
           dc == IF r.extraction THEN r.document_content
                 ELSE task.document_content
           bd == IF r.extraction THEN r.bindings ELSE task.bindings
           missing == ~dc.present \/ ~bd.present
           after == [task EXCEPT
                        !.calls = Append(@, [check |-> Checks[task.k],
                                             findings |-> r.findings]),
                        !.findings = @ \o r.findings,
                        !.document_content = dc,
                        !.bindings = bd,
                        !.read = @ \cup r.read]
       IN  shared' =
             [shared EXCEPT
                !.self_document_content =
                    IF r.extraction THEN r.document_content ELSE @,
                !.self_bindings = IF r.extraction THEN r.bindings ELSE @,
                !.running =
                    IF fatal \/ last THEN NoTask
                    ELSE IF YieldsBetweenChecks THEN NoTask ELSE t,
                !.tasks[t] =
                    IF fatal THEN [after EXCEPT !.pc = "done"]
                    ELSE IF ~last THEN [after EXCEPT !.k = @ + 1]
                    ELSE IF missing THEN [after EXCEPT !.pc = "raised"]
                    ELSE [after EXCEPT !.pc = "semantic", !.passed = TRUE]]
    /\ UNCHANGED shared_frame

\* The semantic pipeline of the audit t: a context of its own, built from
\* the result of its AIA, collects the findings of its passes.
SemanticRun(t) ==
    /\ shared.state = "serving"
    /\ shared.running = NoTask
    /\ shared.tasks[t].pc = "semantic"
    /\ \E fs \in {<<>>, <<SemanticFinding("P1", "minor", "a", "none")>>} :
        shared' = [shared EXCEPT !.tasks[t].pc = "done",
                                 !.tasks[t].ctx_findings = fs,
                                 !.tasks[t].findings = @ \o fs]
    /\ UNCHANGED shared_frame

InitShared == AuditIdle /\ ComponentsIdle

NextShared ==
    \/ RequestsArrive
    \/ \E t \in Tasks : StartRun(t)
    \/ \E t \in Tasks : CheckStep(t)
    \/ \E t \in Tasks : SemanticRun(t)

SpecShared == InitShared /\ [][NextShared]_vars

\* The audits whose AIA has begun.
Started == IF shared.state = "serving"
           THEN {t \in Tasks : shared.tasks[t].pc # "start"}
           ELSE {}

AiaEnded(t) == shared.tasks[t].pc \in {"semantic", "done", "raised"}

Critical(findings) == \E f \in SeqToSet(findings) : f.severity = "critical"

\* C31: AIA calls its checks in the order container/archival, content
\* extraction, cryptographic binding; no check is called after one that
\* yielded a critical finding, and that run returns passed=false.
C31_OrderedChecksAbortOnFatal ==
    \A t \in Started :
        LET made == shared.tasks[t].calls
        IN  /\ Len(made) <= Len(Checks)
            /\ \A i \in 1..Len(made) : made[i].check = Checks[i]
            /\ \A i \in 1..(Len(made) - 1) : ~Critical(made[i].findings)
            /\ AiaEnded(t) =>
                /\ Len(made) >= 1
                /\ Critical(made[Len(made)].findings)
                      => ~shared.tasks[t].passed
                         /\ shared.tasks[t].pc = "done"
                /\ ~Critical(made[Len(made)].findings)
                      => Len(made) = Len(Checks)

C31_Witness ==
    /\ shared.state = "serving"
    /\ shared.tasks[1].pc = "done"
    /\ ~shared.tasks[1].passed
    /\ Len(shared.tasks[1].calls) = 2
    /\ "AIA-MAJ-004" \in FindingIds(shared.tasks[1].calls[1].findings)
    /\ "AIA-CRIT-020" \in FindingIds(shared.tasks[1].calls[2].findings)

\* C40: with several audits on one coordinator, the Document Content an
\* audit extracted, the instance state its binding check read and the
\* findings it accumulated come from its own PDF alone.
C40_RequestScopedStateIsOwn ==
    \A t \in Started :
        LET task == shared.tasks[t]
            own == ArtifactIntegrityAuditRun(task.pdf)
        IN  /\ task.document_content.owner \in {t, NoTask}
            /\ task.bindings.owner \in {t, NoTask}
            /\ task.read \subseteq {t}
            /\ AiaEnded(t) =>
                /\ task.pc # "raised"
                /\ task.passed = own.passed
                /\ task.findings = own.findings \o task.ctx_findings

C40_Witness ==
    /\ shared.state = "serving"
    /\ \A t \in Tasks : shared.tasks[t].pc = "done"
    /\ shared.tasks[1].pdf # shared.tasks[2].pdf
    /\ shared.tasks[1].passed
    /\ shared.tasks[1].ctx_findings # <<>>
    /\ "AIA-CRIT-034" \in FindingIds(shared.tasks[2].findings)
    /\ shared.tasks[1].read = {1}
    /\ shared.tasks[2].read = {2}

(***************************************************************************)
(* Content hash comparison                                                 *)
(***************************************************************************)

\* A declared content_hash in one of the accepted formats: "<hex>" or
\* "SHA-256:<hex>".
WellFormedHash(content_hash) ==
    /\ content_hash # NoContentHash
    /\ content_hash.prefix \in {"", "SHA-256"}

\* C32: with Document Content and a well-formed declared hash present, the
\* binding check emits AIA-CRIT-034 if and only if the declared hex digest
\* is not the SHA-256 of the canonical content bytes.
C32_MismatchIffDigestsDiffer ==
    (codec.state = "audited" /\ WellFormedHash(codec.bindings.content_hash))
        => ("AIA-CRIT-034" \in SeqToSet(codec.findings)
              <=> LowerHex(codec.bindings.content_hash.hex) #
                    _compute_sha256(
                        json_dumps(codec.document_content, FALSE).tokens))

C32_Witness ==
    /\ codec.state = "audited"
    /\ codec.modified
    /\ codec.bindings.content_hash.prefix = "SHA-256"
    /\ codec.bindings.content_hash.hex = _compute_sha256(<<Literal("null")>>)
    /\ codec.findings = <<"AIA-CRIT-034">>

(***************************************************************************)
(* Content extraction (checks/artifact/content_extraction)                 *)
(***************************************************************************)

\* What content extraction leaves alone.
extraction_frame ==
    <<audit_vars, pass_run, adapted, emit_run, sse, signing, codec, hsm, llm,
      container, shared, coverage>>

\* The Filespec dictionaries of one artifact.
MaxFilespecs == 2

\* A Filespec: its /AFRelationship, where the artifact refers to it (the
\* catalog's /AF, a page's /AF, a /Kids node or the root /Names array of
\* the /Names/EmbeddedFiles tree) and what its /EF stream holds.
Filespecs ==
    [rel     : {"Data", "Supplement", "none"},
     root_af : BOOLEAN,
     page_af : BOOLEAN,
     kids    : BOOLEAN,
     names   : BOOLEAN,
     ef      : {"missing", "empty", "object"}]

FilespecIndices(filespecs) == [i \in 1..Len(filespecs) |-> i]

\* Steps 1 and 2 of extract_embedded_files: one entry per reference found
\* in the catalog's /AF, the pages' /AF and the /Kids of the name tree.
GatheredFilespecs(filespecs) ==
    LET idx == FilespecIndices(filespecs)
        InRootAf(i) == filespecs[i].root_af
        InPageAf(i) == filespecs[i].page_af
        InKids(i)   == filespecs[i].kids
    IN  SelectSeq(idx, InRootAf) \o SelectSeq(idx, InPageAf)
            \o SelectSeq(idx, InKids)

\* extract_embedded_files, for one role: the bytes read from each gathered
\* reference whose Filespec has that /AFRelationship and a readable /EF
\* stream; nothing when the PDF cannot be opened.
extract_embedded_files(filespecs, parse_ok, role) ==
    LET gathered == GatheredFilespecs(filespecs)
        Read(i)  == /\ filespecs[i].rel = role
                    /\ filespecs[i].ef # "missing"
        read     == SelectSeq(gathered, Read)
    IN  IF parse_ok THEN [i \in 1..Len(read) |-> filespecs[read[i]].ef]
        ELSE <<>>

\* run_content_extraction_checks on the artifact: the finding ids and
\* whether Document Content is returned.
ContentExtraction(filespecs, parse_ok) ==
    LET content_payloads == extract_embedded_files(filespecs, parse_ok, "Data")
    IN  IF Len(content_payloads) # 1
        THEN [findings |-> <<"AIA-CRIT-020">>, document_content |-> FALSE,
              content_payloads |-> content_payloads]
        ELSE IF content_payloads[1] = "empty"
        THEN [findings |-> <<"AIA-CRIT-021">>, document_content |-> FALSE,
              content_payloads |-> content_payloads]
        ELSE [findings |-> <<>>, document_content |-> TRUE,
              content_payloads |-> content_payloads]

\* A Filespec is written into the artifact.
AddFilespec ==
    /\ extraction.state \in {"idle", "artifact"}
    /\ LET filespecs == IF extraction.state = "idle" THEN <<>>
                        ELSE extraction.filespecs
       IN  /\ Len(filespecs) < MaxFilespecs
           /\ \E fs \in Filespecs :
                extraction' = [state |-> "artifact",
                               filespecs |-> Append(filespecs, fs)]
    /\ UNCHANGED extraction_frame

\* run_content_extraction_checks(pdf_bytes).
ExtractContent ==
    /\ extraction.state = "artifact"
    /\ \E parse_ok \in BOOLEAN :
        extraction' =
            [state |-> "extracted", filespecs |-> extraction.filespecs,
             parse_ok |-> parse_ok,
             result |-> ContentExtraction(extraction.filespecs, parse_ok)]
    /\ UNCHANGED extraction_frame

InitExtraction == AuditIdle /\ ComponentsIdle

NextExtraction ==
    \/ AddFilespec
    \/ ExtractContent

SpecExtraction == InitExtraction /\ [][NextExtraction]_vars

\* The Filespecs with /AFRelationship = /Data among those the artifact
\* refers to from an /AF array or from the /Names/EmbeddedFiles tree.
DataFilespecs(filespecs) ==
    {i \in 1..Len(filespecs) :
        /\ filespecs[i].rel = "Data"
        /\ \/ filespecs[i].root_af
           \/ filespecs[i].page_af
           \/ filespecs[i].kids
           \/ filespecs[i].names}

\* C33: content extraction emits AIA-CRIT-020 if and only if the artifact
\* does not hold exactly one Filespec with /AFRelationship = /Data among
\* those gathered from the /AF arrays and the /Names/EmbeddedFiles tree; an
\* artifact with exactly one such Filespec never gets AIA-CRIT-020.
C33_MissingOrAmbiguousIffNotOne ==
    (extraction.state = "extracted" /\ extraction.parse_ok) =>
        ("AIA-CRIT-020" \in SeqToSet(extraction.result.findings)
            <=> Cardinality(DataFilespecs(extraction.filespecs)) # 1)

(***************************************************************************)
(* Post-STV finding resolution                                             *)
(***************************************************************************)

\* C34: post-STV resolution replaces each finding whose finding_id is in
\* resolved_aia_finding_ids by a copy that differs only in status=resolved;
\* every other finding and the order of the list are unchanged, and no
\* finding is changed in place: the sub-results that hold the same findings
\* are as they were.
C34_ResolutionIsSubstitution ==
    [][(pc = "stv" /\ pc' = "done") =>
        LET before == all_findings \o seal_trust'.findings
            ids    == SeqToSet(seal_trust'.resolved_aia_finding_ids)
        IN  /\ Len(all_findings') = Len(before)
            /\ \A i \in 1..Len(before) :
                  IF before[i].finding_id \in ids
                  THEN all_findings'[i] =
                          [before[i] EXCEPT !.status = "resolved"]
                  ELSE all_findings'[i] = before[i]
            /\ artifact_integrity' = artifact_integrity
            /\ semantic_audit' = semantic_audit]_vars

C34_Witness ==
    /\ StvReturned
    /\ seal_trust.resolved_aia_finding_ids # <<>>
    /\ \E f \in SeqToSet(all_findings) :
          f.finding_id = "AIA-MAJ-008" /\ f.status = "resolved"
              /\ f.requires_stv
    /\ \E f \in SeqToSet(all_findings) : f.status = "open"
    /\ \E f \in SeqToSet(artifact_integrity.findings) :
          f.finding_id = "AIA-MAJ-008"
              /\ f.status = "flagged_for_human_review"

\* C35: in every returned report, each AIA finding has the same status in
\* the flattened findings list as in artifact_integrity.findings.
C35_FlattenedStatusAgrees ==
    Returned =>
        \A f \in SeqToSet(report.artifact_integrity.findings) :
            \A g \in SeqToSet(report.findings) :
                (g.finding_id = f.finding_id /\ g.source = f.source)
                    => g.status = f.status

(***************************************************************************)
(* Terminal poll statuses                                                  *)
(***************************************************************************)

\* The poll responses seen so far by the current sign_digest call.
PollStatuses == IF "statuses" \in DOMAIN hsm THEN hsm.statuses ELSE {}

\* Something other than a response: the request itself failed.
NoResponse == {"TransportError"}

\* C36: a poll response with status failed ends the operation at once with
\* the remote failure (RuntimeError) and no further poll; a succeeded
\* response returns the signature and certificate; after a response, another
\* poll is made only if its status was non-terminal.
C36_TerminalStatusesEndPolling ==
    /\ "failed" \in PollStatuses
          => hsm.pc = "failed" /\ hsm.error = "RuntimeError"
    /\ "succeeded" \in PollStatuses => hsm.pc = "done"
    /\ Polling => PollStatuses \ NoResponse \subseteq Pending

C36_Witness ==
    /\ hsm.pc = "failed"
    /\ hsm.error = "RuntimeError"
    /\ hsm.statuses = {"running", "failed"}
    /\ hsm.polls = 2
    /\ hsm.waits = <<1>>

(***************************************************************************)
(* Last-signature coverage (checks/artifact/container_archival)            *)
(***************************************************************************)

\* What the coverage helper leaves alone.
coverage_frame ==
    <<audit_vars, pass_run, adapted, emit_run, sse, signing, codec, hsm, llm,
      container, shared, extraction>>

\* File lengths and /Sig fields of the artifacts considered.
MaxFileLen == 3

MaxSigFields == 2

\* A /Sig field of the AcroForm: declared but unsigned, or signed with a
\* /ByteRange [o1, l1, o2, l2] of which o2 and l2 decide the coverage.
SigFields ==
    [signed : {FALSE}] \cup
    [signed : {TRUE}, o2 : 0..MaxFileLen, l2 : 0..MaxFileLen]

\* The ends o2 + l2 of the byte ranges the helper collects.
ByteRangeEnds(fields) ==
    {fields[i].o2 + fields[i].l2 :
        i \in {j \in 1..Len(fields) : fields[j].signed}}

\* The last signature is the one whose ByteRange ends furthest.
CoveredEnd(fields) ==
    CHOOSE e \in ByteRangeEnds(fields) :
        \A other \in ByteRangeEnds(fields) : other <= e

\* _last_signature_covers_full_document on pdf_bytes of length file_len.
covers_full_document(file_len, parse_ok, fields) ==
    IF ~parse_ok THEN TRUE
    ELSE IF ByteRangeEnds(fields) = {} THEN TRUE
    ELSE CoveredEnd(fields) >= file_len

\* An artifact is written: its length and its signature fields.
WriteArtifact ==
    /\ coverage.state = "idle"
    /\ \E file_len \in 1..MaxFileLen, parse_ok \in BOOLEAN,
          n \in 0..MaxSigFields :
        \E fields \in [1..n -> SigFields] :
            coverage' = [state |-> "artifact", file_len |-> file_len,
                         parse_ok |-> parse_ok, fields |-> fields]
    /\ UNCHANGED coverage_frame

\* _last_signature_covers_full_document(pdf_bytes).
CheckCoverage ==
    /\ coverage.state = "artifact"
    /\ coverage' =
          [coverage EXCEPT !.state = "checked"] @@
          [covers |-> covers_full_document(coverage.file_len,
                                           coverage.parse_ok,
                                           coverage.fields)]
    /\ UNCHANGED coverage_frame

InitCoverage == AuditIdle /\ ComponentsIdle

NextCoverage ==
    \/ WriteArtifact
    \/ CheckCoverage

SpecCoverage == InitCoverage /\ [][NextCoverage]_vars

\* C37: the coverage helper returns True when the PDF cannot be parsed or
\* holds no signed signature, and returns False exactly when a signed
\* signature exists and the last signature's ByteRange end o2 + l2 does not
\* equal the file length.
C37_FalseIffEndDiffersFromLength ==
    coverage.state = "checked" =>
        LET signed == coverage.parse_ok
                        /\ ByteRangeEnds(coverage.fields) # {}
        IN  /\ ~signed => coverage.covers
            /\ ~coverage.covers
                  <=> (signed /\ CoveredEnd(coverage.fields)
                                    # coverage.file_len)

(***************************************************************************)
(* Pass order                                                              *)
(***************************************************************************)

PassIds(results) == [i \in 1..Len(results) |-> results[i].pass_id]

SpecStream ==
    /\ InitSse
    /\ [][NextSse]_vars
    /\ WF_vars(TaskEmits)
    /\ WF_vars(TaskEnds)
    /\ WF_vars(ConsumerGets)

TerminalEvents == {"AUDIT_COMPLETED", "AUDIT_FAILED"}

Streaming == sse.state = "streaming"

====
